---------------------------- MODULE Spec2Model ----------------------------
(***************************************************************************)
(* Model of the AFL++ process supervisor of onezibo/OpenHands:             *)
(*   openhands/runtime/plugins/agent_skills/security/afl_manager.py        *)
(*       AFLProcessManager (start_fuzzing, stop_fuzzing, wait_for_crash,   *)
(*       the output-reader and stats-poller threads, the crash latch)      *)
(*   openhands/runtime/plugins/agent_skills/security/file_monitor.py       *)
(*       AFLCrashMonitor over FileSystemMonitor (polling strategy)         *)
(*                                                                         *)
(* Every thread of the program is a process of the model with its own      *)
(* program counter; the callers and the crash watcher advance one access   *)
(* to shared state at a time, the output reader one loop iteration at a    *)
(* time.  The child process, the crashes directory and the passing of time *)
(* are the environment.  The manager is restarted only after stop_fuzzing  *)
(* has stopped the crash watcher; an output reader or stats poller that    *)
(* outlives its session is not told apart from the one that replaces it.   *)
(*                                                                         *)
(* Spec is the manager with one controlling and one waiting thread;        *)
(* StopSpec has two threads that stop, StartSpec two that start, WaitSpec  *)
(* a waiter over a directory with two artifacts; MonSpec and FmSpec        *)
(* exercise the AFLCrashMonitor and the FileSystemMonitor of the manager   *)
(* through their own interface.  FsSpec is a FileSystemMonitor with either *)
(* backend, its registries and events in full; ParseSpec applies the       *)
(* AFLOutputParser to bounded inputs; ProgressSpec is                      *)
(* get_progress_message under a running clock.  NotifySpec interleaves the *)
(* writers of self.state, StatsSpec the writers of self.stats; DetectSpec  *)
(* applies _detect_state_changes to pairs of lines; LockSpec follows the   *)
(* holders of FileSystemMonitor._event_lock.                               *)
(***************************************************************************)
EXTENDS Integers, Sequences, FiniteSets, TLC

(***************************************************************************)
(* Bounds of the model.                                                    *)
(***************************************************************************)
\* number of child processes (sessions) one manager may spawn in a run
MaxSpawns == 2

\* largest timeout (in ticks) a caller passes to wait_for_crash
MaxTimeout == 1

(***************************************************************************)
(* Values.                                                                 *)
(***************************************************************************)
\* Python's None for a handle (process, thread, crash monitor)
None == 0

\* wait_for_crash(timeout=None)
NoTimeout == -1

Sessions == 1..MaxSpawns

\* the threads of the embedding program that call into the manager
Callers == {"c1", "c2"}

\* AFLFuzzingState
AFLFuzzingState ==
    {"initializing", "starting", "running", "exploring", "final_phase",
     "finished", "error", "terminated"}

\* File names, as the sequence of their parts: name.startswith('id:') looks
\* at the first part, 'README' in name at every part.
Files == { <<"id:", "000000">> }

\* the names a crashes directory is filled with when the crash monitor is
\* exercised on its own: two crash artifacts, AFL++'s README.txt, and a
\* name that begins with 'id:' and contains 'README'
CrashDirNames ==
    { <<"id:", "000000">>, <<"id:", "000001">>, <<"id:", "README">>,
      <<"README.txt">> }

\* The keywords _detect_state_changes looks for; an output line is the set
\* of keywords it contains (after line.lower() where the code lowers it).
Lines == { {}, {"in progress"}, {"finished"} }

TimeoutValues == {NoTimeout} \cup (0..MaxTimeout)

(***************************************************************************)
(* Values of the FileSystemMonitor exercised on its own.                   *)
(***************************************************************************)
\* largest modification time of a file
MaxMtime == 2

\* number of handlers registered under one watch key
MaxHandlers == 2

\* number of events the kernel holds for one _inotify.read
MaxQueue == 1

\* length of the field of a line given to the parser
MaxField == 3

\* seconds the clock of get_progress_message runs through
MaxClock == 2

\* largest stats.total_execs
MaxExecs == 2

\* number of get_progress_message calls
MaxCalls == 2

\* largest value of a statistics field
MaxStat == 3

\* number of state keywords in one line of output
MaxWords == 2

\* number of changes of self.state that are followed
MaxChanges == 3

\* get_progress_message keeps the last three digits of the clock and of
\* the execution count
Wrap == 1000

\* a file that does not exist has no modification time
NoFile == 0

\* the watched directory and a subdirectory of it that exists from the start
Dirs == {"root", "sub"}

\* the files that may exist, as <<directory, name>>
FsFiles == { <<"root", "a">>, <<"sub", "a">> }

\* the key add_watch is given, and the key f'{watch_key}_{relative path}'
\* it makes up for the subdirectory (line 155)
WatchKey == "k"

SubKey == "k_sub"

Keys == {WatchKey, SubKey}

\* event handlers: one that returns and one that raises
Handlers == {"h_ok", "h_raise"}

\* the path arguments of add_watch: the directory, and a path that does
\* not exist
WatchPaths == {"root", "missing"}

\* the fields of AFLStats the model keeps: one that both the output stream
\* and the fuzzer_stats file supply, one only the stream supplies, one only
\* the file supplies
StatsFields == {"exec_speed", "run_time", "bitmap_cvg"}

\* an empty dict path -> mtime
NoFiles == [f \in FsFiles |-> NoFile]

VARIABLES
    \* ---- environment
    children,       \* child id -> "unborn" | "alive" | "zombie" | "reaped"
    signals,        \* the signals sent to the current child's group, in order
    crashes_dir,    \* the files in <output_dir>/default/crashes
    \* ---- AFLProcessManager fields
    process,                \* self.process: None or the child id
    state,                  \* self.state
    stop_monitoring,        \* self._stop_monitoring (threading.Event)
    crash_monitor,          \* self._crash_monitor: None or the session
    crash_files_count,      \* self._crash_files_count
    crash_event,            \* self._crash_event (threading.Event)
    first_crash_detected,   \* self._first_crash_detected
    \* ---- the threads self._output_thread and self._stats_thread refer to
    out_pc,             \* "none" (the field is None) | "run" | "dead"
    stat_pc,            \* "none" (the field is None) | "run" | "dead"
    \* ---- the AFLCrashMonitor (with its FileSystemMonitor and polling
    \*      thread) that self._crash_monitor refers to, or referred to last
    cm_crash_files,     \* AFLCrashMonitor._crash_files
    cm_monitoring,      \* AFLCrashMonitor._monitoring
    fm_monitoring,      \* FileSystemMonitor._monitoring
    fm_handlers,        \* whether 'afl_crashes' has its handler registered
    fm_last_states,     \* FileSystemMonitor._last_states['afl_crashes']
    fm_stop_event,      \* FileSystemMonitor._stop_event
    w_pc,       \* "none" | "idle" | "cb_flag" | "cb_set" | "cb_user" | "dead"
    w_file, w_new,      \* the event's file; the callback's local new_count
    \* ---- the callers
    pc, op, ret,        \* position, current/last operation, its outcome
    graceful, timeout, remaining, grace_expired, sess,
    result,             \* the dict returned by wait_for_crash
    \* ---- history (written, never read, by the program's actions)
    fresh,      \* caller -> artifacts created while its wait was blocked
    reported,   \* caller -> the watcher has handled such an artifact in full
    stopped,    \* caller -> stop_fuzzing was called while its wait was blocked
    \* ---- one FileSystemMonitor exercised on its own, with its file system
    use_polling,        \* FileSystemMonitor.use_polling
    event_handlers,     \* _event_handlers: watch key -> list of handlers
    watch_descriptors,  \* _watch_descriptors: key -> watched directory
    polling_paths,      \* _polling_paths: watch key -> set of directories
    last_states,        \* _last_states: watch key -> (file -> mtime)
    monitor_thread,     \* _monitor_thread: "none" | "alive" | "dead"
    tree,               \* the files on disk: file -> mtime, 0 when absent
    inotify_queue,      \* the events the kernel holds for _inotify.read
    emitted,            \* the events of the thread's last cycle, in order
    delivered,          \* the handler invocations of that cycle, in order
    cycle_listing,      \* the files as they were at the last polling cycle
                        \* (those of a directory registered since: as they
                        \* were then), NoListing before the first cycle
    add_watch_ret,      \* what the last add_watch returned
    fs_monitoring,      \* FileSystemMonitor._monitoring
    fs_inotify,         \* self._inotify: <<>> for None, else <<the set of
                        \* directories the INotify instance watches>>
    \* ---- AFLOutputParser exercised on its own
    parser_input,       \* the line, or the fuzzer_stats file, it is given
    parser_output,      \* how the call ended, and the dict it returned
    \* ---- get_progress_message
    now,                \* time.time(), in seconds
    total_execs,        \* self.stats.total_execs
    messages,           \* the strings the calls have returned, latest last
    \* ---- the writers of self.state, statement by statement
    assigned,           \* history: the states self.state took, in order
    notified,           \* history: the on_state_change calls, in order
    reader,             \* the output reader in _detect_state_changes
    stopper,            \* the thread in stop_fuzzing, lines 471-472
    \* ---- _detect_state_changes applied to two lines
    det_input,          \* two lines and the state they are met in
    det_output,         \* the state each of the lines leads to
    \* ---- self.stats and its two writers
    stats,              \* the AFLStats object self.stats refers to
    last_update,        \* history: the source and content of the last update
    \* ---- FileSystemMonitor._event_lock and the threads that take it
    event_lock,         \* the holder of the lock, "none" when it is free
    poller,             \* the polling thread within its cycle
    client              \* a thread calling add_watch or remove_watch

envVars == <<children, signals, crashes_dir>>
mgrVars ==
    <<process, state, stop_monitoring, crash_monitor, crash_files_count,
      crash_event, first_crash_detected>>
cmVars ==
    <<cm_crash_files, cm_monitoring, fm_monitoring, fm_handlers,
      fm_last_states, fm_stop_event, w_pc, w_file, w_new>>
callVars ==
    <<pc, op, ret, graceful, timeout, remaining, grace_expired, sess, result>>
histVars == <<fresh, reported, stopped>>

fsVars ==
    <<use_polling, event_handlers, watch_descriptors, polling_paths,
      last_states, monitor_thread, tree, inotify_queue, emitted, delivered,
      cycle_listing, add_watch_ret, fs_monitoring, fs_inotify>>
parserVars == <<parser_input, parser_output>>
progressVars == <<now, total_execs, messages>>
notifyVars == <<assigned, notified, reader, stopper>>
detectVars == <<det_input, det_output>>
lockVars == <<event_lock, poller, client>>
statsVars == <<stats, last_update>>
otherVars == <<notifyVars, detectVars, statsVars, lockVars>>
unitVars == <<fsVars, parserVars, progressVars, otherVars>>

\* the manager, its threads, its crash monitor and its callers
managerVars ==
    <<envVars, mgrVars, out_pc, stat_pc, cmVars, callVars, histVars>>

vars == <<managerVars, unitVars>>

(***************************************************************************)
(* Pure functions of the code.                                             *)
(***************************************************************************)
\* name.startswith('id:'), also what glob('id:*') matches
StartsWithId(name) == name[1] = "id:"

\* 'README' in name
ContainsReadme(name) ==
    \E i \in DOMAIN name : name[i] \in {"README", "README.txt"}

\* variant for sensitivity analysis: the event filter without its README test
AnyIdName(name) == StartsWithId(name)

\* AFLCrashMonitor._handle_file_event: the filter on a Created event
IsCrashFileEvent(name) == StartsWithId(name) /\ ~ContainsReadme(name)

\* AFLCrashMonitor._update_crash_files: the files the scan keeps
ScanCrashFiles(dir) ==
    {f \in dir : StartsWithId(f) /\ ~ContainsReadme(f)}

\* AFLProcessManager.get_crashes, fallback branch: glob('id:*') and
\* not name.startswith('README')
FallbackScan(dir) ==
    {f \in dir : StartsWithId(f) /\ f[1] \notin {"README", "README.txt"}}

\* AFLProcessManager._detect_state_changes: the if/elif chain
DetectState(line, st) ==
    IF "started :-)" \in line \/ "starting" \in line THEN "starting"
    ELSE IF "in progress" \in line THEN "running"
    ELSE IF "final phase" \in line THEN "final_phase"
    ELSE IF "finished" \in line THEN "finished"
    ELSE IF "exploring" \in line THEN "exploring"
    ELSE st

\* variant for sensitivity analysis: every processed line notifies
NotifiesAlways(old, new) == TRUE

\* _detect_state_changes, line 416: if old_state != self.state
NotifiesOn(old, new) == old # new

\* a variant of the comparison that lets an equal count through
ReachesCount(new_count, count) == new_count >= count

\* _on_crash_files_changed, line 319: if new_count > self._crash_files_count
Exceeds(new_count, count) == new_count > count

\* a variant of the callback that goes to on_crash_found without setting
\* the latch
CallbackFirst(flag) == "cb_user"

\* _on_crash_files_changed, lines 323-328: with the first-crash flag false
\* the latch is set next, and on_crash_found is called after it; with the
\* flag true on_crash_found is called right away
AfterFlagTest(flag) == IF flag THEN "cb_user" ELSE "cb_set"

\* Popen.poll() is None
PollIsNone(p) == children[p] = "alive"

\* the manager's child process is alive
ChildAlive == IF process = None THEN FALSE ELSE children[process] = "alive"

\* the child table after Popen.poll() / Popen.wait() has collected p
Reaped(p) ==
    IF p # None /\ children[p] = "zombie"
    THEN [children EXCEPT ![p] = "reaped"]
    ELSE children

\* variant for sensitivity analysis: the liveness check never rejects
NeverRejects == FALSE

\* start_fuzzing, line 219: self.process and self.process.poll() is None
StartRejects == process # None /\ PollIsNone(process)

\* variant for sensitivity analysis: only the handle is tested, not poll()
NoProcessHandle == process = None

\* wait_for_crash, line 544: not self.process or poll() is not None
WaitNotRunning == process = None \/ ~PollIsNone(process)

\* wait_for_crash, line 587: 'timeout' if timeout else 'interrupted'
TimeoutReason(t) ==
    IF t # NoTimeout /\ t # 0 THEN "timeout" ELSE "interrupted"

\* list(a_set): the elements of the set, each once, in some order
RECURSIVE ListOf(_)
ListOf(S) ==
    IF S = {}
    THEN <<>>
    ELSE LET x == CHOOSE y \in S : TRUE IN <<x>> \o ListOf(S \ {x})

\* AFLCrashMonitor.get_crash_files (577-579)
GetCrashFiles == ListOf(cm_crash_files)

\* AFLProcessManager.get_crashes
GetCrashes ==
    IF crash_monitor # None
    THEN cm_crash_files
    ELSE FallbackScan(crashes_dir)

\* what an invocation of a registered callback can do: return, or raise
CallbackOutcomes == {"ok", "raise"}

NumSpawned == Cardinality({s \in Sessions : children[s] # "unborn"})

NoResult ==
    [crashed |-> FALSE, crash_count |-> 0, wait_time |-> "none",
     reason |-> "none", error |-> FALSE]

\* no polling cycle has taken place
NoListing == <<>>

\* FileSystemMonitor.__init__ (51-81), but for use_polling
FsConstructed ==
    /\ event_handlers = [k \in Keys |-> <<>>]
    /\ watch_descriptors = [k \in Keys |-> "none"]
    /\ polling_paths = [k \in Keys |-> {}]
    /\ last_states = [k \in Keys |-> NoFiles]
    /\ monitor_thread = "none"
    /\ inotify_queue = <<>>
    /\ emitted = <<>>
    /\ delivered = <<>>
    /\ cycle_listing = NoListing
    /\ add_watch_ret = "none"
    /\ fs_monitoring = FALSE
    /\ fs_inotify = <<>>

\* no line has been given to the parser
NoInput == [call |-> "none", label |-> "none", field |-> <<>>]

(***************************************************************************)
(* AFLProcessManager.__init__                                              *)
(***************************************************************************)
ManagerInit ==
    /\ children = [s \in Sessions |-> "unborn"]
    /\ signals = <<>>
    /\ crashes_dir = {}
    /\ process = None
    /\ state = "initializing"
    /\ stop_monitoring = FALSE
    /\ crash_monitor = None
    /\ crash_files_count = 0
    /\ crash_event = FALSE
    /\ first_crash_detected = FALSE
    /\ out_pc = "none"
    /\ stat_pc = "none"
    /\ cm_crash_files = {}
    /\ cm_monitoring = FALSE
    /\ fm_monitoring = FALSE
    /\ fm_handlers = FALSE
    /\ fm_last_states = {}
    /\ fm_stop_event = FALSE
    /\ w_pc = "none"
    /\ w_file = <<>>
    /\ w_new = 0
    /\ pc = [c \in Callers |-> "idle"]
    /\ op = [c \in Callers |-> "none"]
    /\ ret = [c \in Callers |-> "none"]
    /\ graceful = [c \in Callers |-> FALSE]
    /\ timeout = [c \in Callers |-> NoTimeout]
    /\ remaining = [c \in Callers |-> 0]
    /\ grace_expired = [c \in Callers |-> FALSE]
    /\ sess = [c \in Callers |-> None]
    /\ result = [c \in Callers |-> NoResult]
    /\ fresh = [c \in Callers |-> {}]
    /\ reported = [c \in Callers |-> FALSE]
    /\ stopped = [c \in Callers |-> FALSE]

\* no call of the parser has ended
NoOutput == [status |-> "none", results |-> {}]

\* the parser before it is given anything
ParserIdle ==
    /\ parser_input = NoInput
    /\ parser_output = NoOutput

\* the output reader between two lines
ReaderIdle == [pc |-> "read", old |-> "none", new |-> "none"]

\* no pair of lines has been chosen
NoLines == <<>>

\* AFLStats(): every field at its default (lines 36-51)
DefaultStats == [f \in StatsFields |-> 0]

\* self.stats has not been written since construction
NoUpdate == [by |-> "none", supplied |-> [f \in {} |-> 0]]

\* the polling thread between two cycles
PollerIdle == [pc |-> "wait", i |-> 0]

\* the client thread outside its calls
ClientIdle == [pc |-> "idle", call |-> "none", handler |-> "none"]

\* nothing has run of the writers of self.state, of the detection on two
\* lines and of the users of _event_lock; self.stats is AFLStats()
OtherIdle ==
    /\ assigned = <<>>
    /\ notified = <<>>
    /\ reader = ReaderIdle
    /\ stopper = "idle"
    /\ det_input = NoLines
    /\ det_output = <<>>
    /\ stats = DefaultStats
    /\ last_update = NoUpdate
    /\ event_lock = "none"
    /\ poller = PollerIdle
    /\ client = ClientIdle

\* no progress message has been asked for
ProgressIdle ==
    /\ now = 0
    /\ total_execs = 0
    /\ messages = <<>>

Init ==
    /\ ManagerInit
    /\ use_polling = TRUE
    /\ FsConstructed
    /\ tree = NoFiles
    /\ ParserIdle
    /\ ProgressIdle
    /\ OtherIdle

(***************************************************************************)
(* Steps of a caller.  ret is the outcome of the caller's last operation:  *)
(* "True", "False", "dict" (wait_for_crash's result), "raised" (an         *)
(* exception left the operation) or "pending".  The locals of an           *)
(* operation are dropped when it returns.                                  *)
(***************************************************************************)
Return(c, value) ==
    /\ pc' = [pc EXCEPT ![c] = "idle"]
    /\ ret' = [ret EXCEPT ![c] = value]
    /\ graceful' = [graceful EXCEPT ![c] = FALSE]
    /\ grace_expired' = [grace_expired EXCEPT ![c] = FALSE]
    /\ sess' = [sess EXCEPT ![c] = None]

Goto(c, where) ==
    /\ pc' = [pc EXCEPT ![c] = where]
    /\ UNCHANGED <<ret, graceful, grace_expired, sess>>

(***************************************************************************)
(* AFLProcessManager.start_fuzzing (207-278)                               *)
(***************************************************************************)
\* the call and line 219-221, the liveness check.  The callers start a new
\* session only once the watcher of the previous one has been stopped (by
\* stop_fuzzing), so that no watcher is ever replaced while it runs.
StartCheck(c) ==
    /\ pc[c] = "idle"
    /\ StartRejects \/ (NumSpawned < MaxSpawns /\ w_pc \in {"none", "dead"})
    /\ op' = [op EXCEPT ![c] = "start_fuzzing"]
    /\ IF StartRejects
       THEN /\ Return(c, "False")
            /\ UNCHANGED children
       ELSE /\ pc' = [pc EXCEPT ![c] = "start_popen"]
            /\ ret' = [ret EXCEPT ![c] = "pending"]
            /\ children' = Reaped(process)
            /\ UNCHANGED <<graceful, grace_expired, sess>>
    /\ UNCHANGED <<signals, crashes_dir, mgrVars, out_pc, stat_pc, cmVars,
                   timeout, remaining, result, histVars>>
    /\ UNCHANGED unitVars

\* line 252-263: subprocess.Popen spawns the child or raises; on success
\* state = STARTING and _notify_state_change(), whose callback may raise
StartPopen(c) ==
    /\ pc[c] = "start_popen"
    /\ \/ /\ NumSpawned < MaxSpawns
          /\ LET s == NumSpawned + 1 IN
                /\ children' = [children EXCEPT ![s] = "alive"]
                /\ signals' = <<>>
                /\ process' = s
                /\ sess' = [sess EXCEPT ![c] = s]
          /\ state' = "starting"
          /\ \E o \in CallbackOutcomes :
                pc' = [pc EXCEPT ![c] =
                          IF o = "ok" THEN "start_mon" ELSE "start_err"]
       \/ /\ pc' = [pc EXCEPT ![c] = "start_err"]
          /\ UNCHANGED <<children, signals, process, sess, state>>
    /\ UNCHANGED <<crashes_dir, stop_monitoring, crash_monitor,
                   crash_files_count, crash_event, first_crash_detected,
                   out_pc, stat_pc, cmVars, op, ret, graceful, timeout,
                   remaining, grace_expired, result, histVars>>
    /\ UNCHANGED unitVars

\* line 266, _start_monitoring (280-290): clear the stop flag, start the two
\* monitor threads; Thread.start() may raise (no thread can be created)
StartMonitoring(c) ==
    /\ pc[c] = "start_mon"
    /\ stop_monitoring' = FALSE
    /\ \/ /\ out_pc' = "run"
          /\ stat_pc' = "run"
          /\ Goto(c, "start_cm_scan")
       \/ /\ Goto(c, "start_err")
          /\ UNCHANGED <<out_pc, stat_pc>>
    /\ UNCHANGED <<envVars, process, state, crash_monitor, crash_files_count,
                   crash_event, first_crash_detected, cmVars, op, timeout,
                   remaining, result, histVars>>
    /\ UNCHANGED unitVars

\* line 269, _start_crash_monitoring (292-302) and the head of
\* AFLCrashMonitor.start_monitoring (490-502): a new AFLCrashMonitor (with
\* a new FileSystemMonitor, 471-488 and 60-81) is stored in
\* self._crash_monitor and scans the directory
StartCrashScan(c) ==
    /\ pc[c] = "start_cm_scan"
    /\ crash_monitor' = sess[c]
    /\ cm_monitoring' = FALSE
    /\ fm_monitoring' = FALSE
    /\ fm_handlers' = FALSE
    /\ fm_last_states' = {}
    /\ fm_stop_event' = FALSE
    /\ w_pc' = "none"
    /\ w_file' = <<>>
    /\ w_new' = 0
    /\ cm_crash_files' = ScanCrashFiles(crashes_dir)
    /\ Goto(c, "start_cm_watch")
    /\ UNCHANGED <<envVars, process, state, stop_monitoring,
                   crash_files_count, crash_event, first_crash_detected,
                   out_pc, stat_pc, op, timeout, remaining, result, histVars>>
    /\ UNCHANGED unitVars

\* AFLCrashMonitor.start_monitoring (505-522): FileSystemMonitor.add_watch
\* registers the handler and takes the first snapshot (83-132, 314-331),
\* FileSystemMonitor.start_monitoring starts the polling thread (220-246);
\* then start_fuzzing returns True (305-314, 271-272).  When the polling
\* thread cannot be started the manager drops the monitor (line 310).
StartCrashWatch(c) ==
    /\ pc[c] = "start_cm_watch"
    /\ fm_handlers' = TRUE
    /\ fm_last_states' = crashes_dir
    /\ \/ /\ fm_monitoring' = TRUE
          /\ fm_stop_event' = FALSE
          /\ w_pc' = "idle"
          /\ cm_monitoring' = TRUE
          /\ UNCHANGED crash_monitor
       \/ /\ crash_monitor' = None
          /\ UNCHANGED <<fm_monitoring, fm_stop_event, w_pc, cm_monitoring>>
    /\ Return(c, "True")
    /\ UNCHANGED <<envVars, process, state, stop_monitoring,
                   crash_files_count, crash_event, first_crash_detected,
                   out_pc, stat_pc, cm_crash_files, w_file, w_new, op,
                   timeout, remaining, result, histVars>>
    /\ UNCHANGED unitVars

\* line 274-278: the except branch; the notification is not guarded, so a
\* raising on_state_change leaves start_fuzzing as an exception
StartError(c) ==
    /\ pc[c] = "start_err"
    /\ state' = "error"
    /\ \E o \in CallbackOutcomes :
          Return(c, IF o = "ok" THEN "False" ELSE "raised")
    /\ UNCHANGED <<envVars, process, stop_monitoring, crash_monitor,
                   crash_files_count, crash_event, first_crash_detected,
                   out_pc, stat_pc, cmVars, op, timeout, remaining, result,
                   histVars>>
    /\ UNCHANGED unitVars

(***************************************************************************)
(* AFLProcessManager.stop_fuzzing (425-484)                                *)
(***************************************************************************)
\* the call stop_fuzzing(graceful=g) and line 434-442: no process handle:
\* return False; else set the stop flag
StopCheck(c, g) ==
    /\ pc[c] = "idle"
    /\ op' = [op EXCEPT ![c] = "stop_fuzzing"]
    /\ IF process = None
       THEN /\ Return(c, "False")
            /\ UNCHANGED <<stop_monitoring, stopped>>
       ELSE /\ pc' = [pc EXCEPT ![c] = "stop_cm"]
            /\ ret' = [ret EXCEPT ![c] = "pending"]
            /\ graceful' = [graceful EXCEPT ![c] = g]
            /\ stop_monitoring' = TRUE
            /\ stopped' = [d \in Callers |->
                              stopped[d] \/ pc[d] = "wait_block"]
            /\ UNCHANGED <<grace_expired, sess>>
    /\ UNCHANGED <<envVars, process, state, crash_monitor, crash_files_count,
                   crash_event, first_crash_detected, out_pc, stat_pc, cmVars,
                   timeout, remaining, result, fresh, reported>>
    /\ UNCHANGED unitVars

\* line 445-451 with AFLCrashMonitor.stop_monitoring (528-538):
\* remove_watch (174-194) takes _event_lock, which the polling thread holds
\* for a whole cycle; FileSystemMonitor.stop_monitoring (248-266) sets the
\* stop event and joins the polling thread, which is between two cycles and
\* ends (276); finally self._crash_monitor = None, which leaves the monitor
\* object unreachable (its fields return to their initial values)
StopCrashMonitor(c) ==
    /\ pc[c] = "stop_cm"
    /\ IF crash_monitor = None
       THEN UNCHANGED <<crash_monitor, cm_monitoring, cm_crash_files,
                        fm_handlers, fm_last_states, fm_monitoring,
                        fm_stop_event, w_pc>>
       ELSE IF ~cm_monitoring
       THEN /\ crash_monitor' = None
            /\ UNCHANGED <<cm_monitoring, cm_crash_files, fm_handlers,
                           fm_last_states, fm_monitoring, fm_stop_event,
                           w_pc>>
       ELSE /\ w_pc \in {"idle", "dead"}
            /\ fm_handlers' = FALSE
            /\ fm_last_states' = {}
            /\ fm_monitoring' = FALSE
            /\ fm_stop_event' = (fm_monitoring \/ fm_stop_event)
            /\ w_pc' = "dead"
            /\ cm_monitoring' = FALSE
            /\ cm_crash_files' = {}
            /\ crash_monitor' = None
    /\ Goto(c, "stop_sig")
    /\ UNCHANGED <<envVars, process, state, stop_monitoring,
                   crash_files_count, crash_event, first_crash_detected,
                   out_pc, stat_pc, w_file, w_new, op, timeout, remaining,
                   result, histVars>>
    /\ UNCHANGED unitVars

\* line 453-455 and 465-469: os.getpgid raises when the child has been
\* collected; else SIGTERM to the group, or SIGKILL and process.wait()
StopSignal(c) ==
    /\ pc[c] = "stop_sig"
    /\ IF children[process] = "reaped"
       THEN /\ Return(c, "False")
            /\ UNCHANGED <<children, signals>>
       ELSE IF graceful[c]
       THEN /\ signals' = Append(signals, "SIGTERM")
            /\ Goto(c, "stop_wait")
            /\ UNCHANGED children
       ELSE /\ signals' = Append(signals, "SIGKILL")
            /\ children' = [children EXCEPT ![process] = "reaped"]
            /\ Goto(c, "stop_term")
    /\ UNCHANGED <<crashes_dir, mgrVars, out_pc, stat_pc, cmVars, op, timeout,
                   remaining, result, histVars>>
    /\ UNCHANGED unitVars

\* line 458-462: process.wait(timeout=10) returns once the child has exited,
\* or raises TimeoutExpired while it is still alive
StopWait(c) ==
    /\ pc[c] = "stop_wait"
    /\ IF children[process] # "alive"
       THEN /\ children' = Reaped(process)
            /\ Goto(c, "stop_term")
       ELSE /\ pc' = [pc EXCEPT ![c] = "stop_kill"]
            /\ grace_expired' = [grace_expired EXCEPT ![c] = TRUE]
            /\ UNCHANGED <<children, ret, graceful, sess>>
    /\ UNCHANGED <<signals, crashes_dir, mgrVars, out_pc, stat_pc, cmVars, op,
                   timeout, remaining, result, histVars>>
    /\ UNCHANGED unitVars

\* line 463-464: os.killpg(os.getpgid(pid), SIGKILL); process.wait()
StopKill(c) ==
    /\ pc[c] = "stop_kill"
    /\ IF children[process] = "reaped"
       THEN /\ Return(c, "False")
            /\ UNCHANGED <<children, signals>>
       ELSE /\ signals' = Append(signals, "SIGKILL")
            /\ children' = [children EXCEPT ![process] = "reaped"]
            /\ Goto(c, "stop_term")
    /\ UNCHANGED <<crashes_dir, mgrVars, out_pc, stat_pc, cmVars, op, timeout,
                   remaining, result, histVars>>
    /\ UNCHANGED unitVars

\* line 471-472: state = TERMINATED; _notify_state_change(); a raising
\* callback is caught at line 482 and stop_fuzzing returns False
StopTerminated(c) ==
    /\ pc[c] = "stop_term"
    /\ state' = "terminated"
    /\ \E o \in CallbackOutcomes :
          IF o = "ok" THEN Goto(c, "stop_join") ELSE Return(c, "False")
    /\ UNCHANGED <<envVars, process, stop_monitoring, crash_monitor,
                   crash_files_count, crash_event, first_crash_detected,
                   out_pc, stat_pc, cmVars, op, timeout, remaining, result,
                   histVars>>
    /\ UNCHANGED unitVars

\* the output reader has ended
OutputJoined == out_pc \in {"none", "dead"}

\* line 477-478: join(timeout=5) on the stats poller, which sleeps 5 s
\* between polls: the join can give up on a poller that is still asleep,
\* unless the 10 s grace window has passed since the stop flag was set
StatsJoined(c) ==
    \/ stat_pc \in {"none", "dead"}
    \/ ~grace_expired[c] /\ stat_pc = "run"

\* line 475-480: join both monitor threads, return True
StopJoin(c) ==
    /\ pc[c] = "stop_join"
    /\ OutputJoined
    /\ StatsJoined(c)
    /\ Return(c, "True")
    /\ UNCHANGED <<envVars, mgrVars, out_pc, stat_pc, cmVars, op, timeout,
                   remaining, result, histVars>>
    /\ UNCHANGED unitVars

(***************************************************************************)
(* AFLProcessManager.wait_for_crash (525-613)                              *)
(***************************************************************************)
\* the call wait_for_crash(timeout=t) and line 544-553
WaitCheck(c, t) ==
    /\ pc[c] = "idle"
    /\ op' = [op EXCEPT ![c] = "wait_for_crash"]
    /\ fresh' = [fresh EXCEPT ![c] = {}]
    /\ reported' = [reported EXCEPT ![c] = FALSE]
    /\ stopped' = [stopped EXCEPT ![c] = FALSE]
    /\ IF WaitNotRunning
       THEN /\ result' = [result EXCEPT ![c] =
                  [crashed |-> FALSE, crash_count |-> 0, wait_time |-> "0.0",
                   reason |-> "not_running", error |-> TRUE]]
            /\ Return(c, "dict")
            /\ UNCHANGED timeout
       ELSE /\ timeout' = [timeout EXCEPT ![c] = t]
            /\ pc' = [pc EXCEPT ![c] = "wait_clear"]
            /\ ret' = [ret EXCEPT ![c] = "pending"]
            /\ result' = [result EXCEPT ![c] = NoResult]
            /\ UNCHANGED <<graceful, grace_expired, sess>>
    /\ children' = Reaped(process)
    /\ UNCHANGED <<signals, crashes_dir, mgrVars, out_pc, stat_pc, cmVars,
                   remaining>>
    /\ UNCHANGED unitVars

\* line 559: self._crash_event.clear()
WaitClear(c) ==
    /\ pc[c] = "wait_clear"
    /\ crash_event' = FALSE
    /\ Goto(c, "wait_rearm")
    /\ UNCHANGED <<envVars, process, state, stop_monitoring, crash_monitor,
                   crash_files_count, first_crash_detected, out_pc, stat_pc,
                   cmVars, op, timeout, remaining, result, histVars>>
    /\ UNCHANGED unitVars

\* line 560: self._first_crash_detected = False; then the call blocks in
\* self._crash_event.wait(timeout) (568)
WaitRearm(c) ==
    /\ pc[c] = "wait_rearm"
    /\ first_crash_detected' = FALSE
    /\ remaining' = [remaining EXCEPT ![c] =
          IF timeout[c] = NoTimeout THEN 0 ELSE timeout[c]]
    /\ Goto(c, "wait_block")
    /\ UNCHANGED <<envVars, process, state, stop_monitoring, crash_monitor,
                   crash_files_count, crash_event, out_pc, stat_pc, cmVars,
                   op, timeout, result, histVars>>
    /\ UNCHANGED unitVars

\* line 568-598: Event.wait returns True as soon as the event is set, and
\* False when the timeout has run out with the event unset
WaitWake(c) ==
    /\ pc[c] = "wait_block"
    /\ \/ /\ crash_event
          /\ result' = [result EXCEPT ![c] =
                [crashed |-> TRUE, crash_count |-> Cardinality(GetCrashes),
                 wait_time |-> "measured", reason |-> "crash_detected",
                 error |-> FALSE]]
       \/ /\ ~crash_event
          /\ timeout[c] # NoTimeout
          /\ remaining[c] = 0
          /\ result' = [result EXCEPT ![c] =
                [crashed |-> FALSE, crash_count |-> Cardinality(GetCrashes),
                 wait_time |-> "measured",
                 reason |-> TimeoutReason(timeout[c]), error |-> FALSE]]
    /\ remaining' = [remaining EXCEPT ![c] = 0]
    /\ timeout' = [timeout EXCEPT ![c] = NoTimeout]
    /\ fresh' = [fresh EXCEPT ![c] = {}]
    /\ reported' = [reported EXCEPT ![c] = FALSE]
    /\ stopped' = [stopped EXCEPT ![c] = FALSE]
    /\ Return(c, "dict")
    /\ UNCHANGED <<envVars, mgrVars, out_pc, stat_pc, cmVars, op>>
    /\ UNCHANGED unitVars

(***************************************************************************)
(* The output reader: AFLProcessManager._monitor_output (332-358)          *)
(***************************************************************************)
\* line 340: while not self._stop_monitoring.is_set() and
\*           self.process.poll() is None: the loop ends
OutputExit ==
    /\ out_pc = "run"
    /\ stop_monitoring \/ ~PollIsNone(process)
    /\ out_pc' = "dead"
    /\ children' = IF stop_monitoring THEN children ELSE Reaped(process)
    /\ UNCHANGED <<signals, crashes_dir, mgrVars, stat_pc, cmVars, callVars,
                   histVars>>
    /\ UNCHANGED unitVars

\* line 340-353, one iteration: readline() returns a line of the child,
\* _detect_state_changes (401-417) assigns the state its keyword selects
\* and, if old_state != self.state, calls _notify_state_change(); an
\* exception of the callback is caught outside the loop (355), which ends
\* the thread
OutputLine ==
    /\ out_pc = "run"
    /\ ~stop_monitoring
    /\ PollIsNone(process)
    /\ \E line \in Lines :
          /\ state' = DetectState(line, state)
          /\ IF NotifiesOn(state, state')
             THEN \E o \in CallbackOutcomes :
                     out_pc' = IF o = "ok" THEN "run" ELSE "dead"
             ELSE UNCHANGED out_pc
    /\ UNCHANGED <<envVars, process, stop_monitoring, crash_monitor,
                   crash_files_count, crash_event, first_crash_detected,
                   stat_pc, cmVars, callVars, histVars>>
    /\ UNCHANGED unitVars

(***************************************************************************)
(* The stats poller: AFLProcessManager._monitor_stats (360-393)            *)
(***************************************************************************)
\* line 367-391: with the stop flag clear, one poll of fuzzer_stats (the
\* exceptions of its callbacks are caught inside the loop) and
\* time.sleep(5); the manager's fields the model keeps are not written
StatsPoll ==
    /\ stat_pc = "run"
    /\ ~stop_monitoring
    /\ UNCHANGED vars

\* line 367, 393: the loop ends only when it finds the stop flag set
StatsExit ==
    /\ stat_pc = "run"
    /\ stop_monitoring
    /\ stat_pc' = "dead"
    /\ UNCHANGED <<envVars, mgrVars, out_pc, cmVars, callVars, histVars>>
    /\ UNCHANGED unitVars

(***************************************************************************)
(* The crash watcher: FileSystemMonitor._polling_loop (272-289) with       *)
(* _check_polling_changes (333-390), AFLCrashMonitor._handle_file_event    *)
(* (544-566) and AFLProcessManager._on_crash_files_changed (316-330).      *)
(* A cycle's events are handled one file at a time.                        *)
(***************************************************************************)
\* history: the callers to whose blocked wait the detection of file f has
\* now been reported in full (the manager's callback has run for it)
Reported(f) ==
    [c \in Callers |-> reported[c] \/ (pc[c] = "wait_block" /\ f \in fresh[c])]

\* a file of the listing that the snapshot lacks: a Created event, filtered
\* and added to _crash_files by the handler (548-563), which then calls the
\* manager's callback up to its comparison with _crash_files_count (318-319)
WatchCreated ==
    /\ w_pc = "idle"
    /\ ~fm_stop_event
    /\ fm_handlers
    /\ \E f \in crashes_dir \ fm_last_states :
          /\ fm_last_states' = fm_last_states \cup {f}
          /\ IF IsCrashFileEvent(f)
             THEN LET files == cm_crash_files \cup {f} IN
                  /\ cm_crash_files' = files
                  /\ IF Exceeds(Cardinality(files), crash_files_count)
                     THEN /\ w_pc' = "cb_flag"
                          /\ w_file' = f
                          /\ w_new' = Cardinality(files)
                          /\ UNCHANGED reported
                     ELSE /\ reported' = Reported(f)
                          /\ UNCHANGED <<w_pc, w_file, w_new>>
             ELSE UNCHANGED <<cm_crash_files, w_pc, w_file, w_new, reported>>
    /\ UNCHANGED <<envVars, mgrVars, out_pc, stat_pc, cm_monitoring,
                   fm_monitoring, fm_handlers, fm_stop_event, callVars, fresh,
                   stopped>>
    /\ UNCHANGED unitVars

\* files of the snapshot that have vanished: Deleted events, which the
\* handler ignores; the snapshot is replaced (378-390)
WatchDeleted ==
    /\ w_pc = "idle"
    /\ ~fm_stop_event
    /\ fm_handlers
    /\ ~(fm_last_states \subseteq crashes_dir)
    /\ fm_last_states' = fm_last_states \cap crashes_dir
    /\ UNCHANGED <<envVars, mgrVars, out_pc, stat_pc, cm_crash_files,
                   cm_monitoring, fm_monitoring, fm_handlers, fm_stop_event,
                   w_pc, w_file, w_new, callVars, histVars>>
    /\ UNCHANGED unitVars

\* line 323-324: if not self._first_crash_detected: ... = True
WatchFlag ==
    /\ w_pc = "cb_flag"
    /\ w_pc' = AfterFlagTest(first_crash_detected)
    /\ first_crash_detected' = TRUE
    /\ UNCHANGED <<envVars, process, state, stop_monitoring, crash_monitor,
                   crash_files_count, crash_event, out_pc, stat_pc,
                   cm_crash_files, cm_monitoring, fm_monitoring, fm_handlers,
                   fm_last_states, fm_stop_event, w_file, w_new, callVars,
                   histVars>>
    /\ UNCHANGED unitVars

\* line 325: self._crash_event.set()
WatchSet ==
    /\ w_pc = "cb_set"
    /\ crash_event' = TRUE
    /\ w_pc' = "cb_user"
    /\ UNCHANGED <<envVars, process, state, stop_monitoring, crash_monitor,
                   crash_files_count, first_crash_detected, out_pc, stat_pc,
                   cm_crash_files, cm_monitoring, fm_monitoring, fm_handlers,
                   fm_last_states, fm_stop_event, w_file, w_new, callVars,
                   histVars>>
    /\ UNCHANGED unitVars

\* line 328-330: on_crash_found(new_count), then _crash_files_count =
\* new_count; an exception of the callback skips the assignment and is
\* caught by the handler (565)
WatchUser ==
    /\ w_pc = "cb_user"
    /\ \E o \in CallbackOutcomes :
          crash_files_count' = IF o = "ok" THEN w_new ELSE crash_files_count
    /\ w_pc' = "idle"
    /\ w_file' = <<>>
    /\ w_new' = 0
    /\ reported' = Reported(w_file)
    /\ UNCHANGED <<envVars, process, state, stop_monitoring, crash_monitor,
                   crash_event, first_crash_detected, out_pc, stat_pc,
                   cm_crash_files, cm_monitoring, fm_monitoring, fm_handlers,
                   fm_last_states, fm_stop_event, callVars, fresh, stopped>>
    /\ UNCHANGED unitVars

(***************************************************************************)
(* The environment: the child, the crashes directory, time                 *)
(***************************************************************************)
\* the child exits (on its own, or on a SIGTERM it honours)
ChildExit(s) ==
    /\ children[s] = "alive"
    /\ children' = [children EXCEPT ![s] = "zombie"]
    /\ UNCHANGED <<signals, crashes_dir, mgrVars, out_pc, stat_pc, cmVars,
                   callVars, histVars>>
    /\ UNCHANGED unitVars

\* the manager has a crash watcher running on the crashes directory
Watched == crash_monitor # None /\ cm_monitoring

\* history: file f is a crash artifact that appears, unknown to the
\* watcher, while caller c is blocked in wait_for_crash on a live child
FreshFor(c, f) ==
    /\ pc[c] = "wait_block"
    /\ children[process] = "alive"
    /\ Watched
    /\ StartsWithId(f) /\ ~ContainsReadme(f)
    /\ f \notin cm_crash_files

\* the fuzzer writes a file into the crashes directory
CreateFile(f) ==
    /\ ChildAlive
    /\ f \notin crashes_dir
    /\ crashes_dir' = crashes_dir \cup {f}
    /\ fresh' = [c \in Callers |->
                    IF FreshFor(c, f) THEN fresh[c] \cup {f} ELSE fresh[c]]
    /\ UNCHANGED <<children, signals, mgrVars, out_pc, stat_pc, cmVars,
                   callVars, reported, stopped>>
    /\ UNCHANGED unitVars

\* the crashes directory is cleaned up while no fuzzer runs
DeleteFile(f) ==
    /\ ~ChildAlive
    /\ f \in crashes_dir
    /\ crashes_dir' = crashes_dir \ {f}
    /\ UNCHANGED <<children, signals, mgrVars, out_pc, stat_pc, cmVars,
                   callVars, histVars>>
    /\ UNCHANGED unitVars

\* time passes for a caller blocked in Event.wait(timeout)
Tick(c) ==
    /\ pc[c] = "wait_block"
    /\ timeout[c] # NoTimeout
    /\ remaining[c] > 0
    /\ remaining' = [remaining EXCEPT ![c] = @ - 1]
    /\ UNCHANGED <<envVars, mgrVars, out_pc, stat_pc, cmVars, pc, op, ret,
                   graceful, timeout, grace_expired, sess, result, histVars>>
    /\ UNCHANGED unitVars

(***************************************************************************)
(* The specification: one thread drives the session (start_fuzzing,        *)
(* stop_fuzzing, one call after the other) while another waits for crashes.*)
(***************************************************************************)
Controller == "c1"

Waiter == "c2"

StartFuzzing(c) ==
    \/ StartCheck(c)
    \/ StartPopen(c)
    \/ StartMonitoring(c)
    \/ StartCrashScan(c)
    \/ StartCrashWatch(c)
    \/ StartError(c)

StopFuzzing(c) ==
    \/ \E g \in BOOLEAN : StopCheck(c, g)
    \/ StopCrashMonitor(c)
    \/ StopSignal(c)
    \/ StopWait(c)
    \/ StopKill(c)
    \/ StopTerminated(c)
    \/ StopJoin(c)

WaitForCrash(c) ==
    \/ \E t \in TimeoutValues : WaitCheck(c, t)
    \/ WaitClear(c)
    \/ WaitRearm(c)
    \/ WaitWake(c)

MonitorOutput == OutputExit \/ OutputLine

MonitorStats == StatsPoll \/ StatsExit

PollingLoop ==
    \/ WatchCreated
    \/ WatchDeleted
    \/ WatchFlag
    \/ WatchSet
    \/ WatchUser

Threads == MonitorOutput \/ MonitorStats \/ PollingLoop

Environment ==
    \/ \E s \in Sessions : ChildExit(s)
    \/ \E f \in Files : CreateFile(f) \/ DeleteFile(f)
    \/ \E c \in Callers : Tick(c)

Next ==
    \/ StartFuzzing(Controller)
    \/ StopFuzzing(Controller)
    \/ WaitForCrash(Waiter)
    \/ Threads
    \/ Environment

Spec == Init /\ [][Next]_vars

(***************************************************************************)
(* A second specification: two threads of the embedding program may both   *)
(* call stop_fuzzing, in any interleaving, on the session the first one    *)
(* starts.                                                                 *)
(***************************************************************************)
StopNext ==
    \/ StartFuzzing(Controller)
    \/ StopFuzzing(Controller)
    \/ StopFuzzing(Waiter)
    \/ Threads
    \/ \E s \in Sessions : ChildExit(s)
    \/ \E f \in Files : CreateFile(f) \/ DeleteFile(f)

StopSpec == Init /\ [][StopNext]_vars

(***************************************************************************)
(* Two threads of the embedding program may both call start_fuzzing, in    *)
(* any interleaving, on one manager that nobody stops.                     *)
(***************************************************************************)
StartNext ==
    \/ StartFuzzing(Controller)
    \/ StartFuzzing(Waiter)
    \/ MonitorOutput
    \/ StatsPoll
    \/ PollingLoop
    \/ \E s \in Sessions : ChildExit(s)
    \/ \E f \in Files : CreateFile(f) \/ DeleteFile(f)

StartSpec == Init /\ [][StartNext]_vars

(***************************************************************************)
(* One thread starts sessions that nobody stops while another waits for    *)
(* crashes, and the fuzzer may write two artifacts.                        *)
(***************************************************************************)
Artifacts == {f \in CrashDirNames : IsCrashFileEvent(f)}

WaitNext ==
    \/ StartFuzzing(Controller)
    \/ WaitForCrash(Waiter)
    \/ MonitorOutput
    \/ StatsPoll
    \/ PollingLoop
    \/ \E s \in Sessions : ChildExit(s)
    \/ \E f \in Artifacts : CreateFile(f) \/ DeleteFile(f)
    \/ \E c \in Callers : Tick(c)

WaitSpec == Init /\ [][WaitNext]_vars

(***************************************************************************)
(* A third specification: one AFLCrashMonitor (file_monitor.py 464-583),   *)
(* created with the manager's _on_crash_files_changed as on_crash_found,   *)
(* whose start_monitoring and stop_monitoring are called, one call after   *)
(* the other, in any order, while files come and go in its directory.      *)
(***************************************************************************)
\* the call AFLCrashMonitor.start_monitoring() and line 492-493
MonStartCheck(c) ==
    /\ pc[c] = "idle"
    /\ op' = [op EXCEPT ![c] = "start_monitoring"]
    /\ IF cm_monitoring
       THEN Return(c, "True")
       ELSE /\ pc' = [pc EXCEPT ![c] = "mon_scan"]
            /\ ret' = [ret EXCEPT ![c] = "pending"]
            /\ UNCHANGED <<graceful, grace_expired, sess>>
    /\ UNCHANGED <<envVars, mgrVars, out_pc, stat_pc, cmVars, timeout,
                   remaining, result, histVars>>
    /\ UNCHANGED unitVars

\* line 502, _update_crash_files (568-575): clear the set, then scan
MonScan(c) ==
    /\ pc[c] = "mon_scan"
    /\ cm_crash_files' = ScanCrashFiles(crashes_dir)
    /\ Goto(c, "mon_watch")
    /\ UNCHANGED <<envVars, mgrVars, out_pc, stat_pc, cm_monitoring,
                   fm_monitoring, fm_handlers, fm_last_states, fm_stop_event,
                   w_pc, w_file, w_new, op, timeout, remaining, result,
                   histVars>>
    /\ UNCHANGED unitVars

\* line 505-522: FileSystemMonitor.add_watch registers the handler and
\* takes the first snapshot (83-132, 314-331); FileSystemMonitor
\* .start_monitoring (220-246) refuses when it is running, else clears the
\* stop event and starts the polling thread, or fails to start it
MonWatch(c) ==
    /\ pc[c] = "mon_watch"
    /\ fm_handlers' = TRUE
    /\ fm_last_states' = crashes_dir
    /\ IF fm_monitoring
       THEN /\ Return(c, "False")
            /\ UNCHANGED <<fm_monitoring, fm_stop_event, w_pc, cm_monitoring>>
       ELSE /\ fm_stop_event' = FALSE
            /\ \/ /\ fm_monitoring' = TRUE
                  /\ w_pc' = "idle"
                  /\ cm_monitoring' = TRUE
                  /\ Return(c, "True")
               \/ /\ Return(c, "False")
                  /\ UNCHANGED <<fm_monitoring, w_pc, cm_monitoring>>
    /\ UNCHANGED <<envVars, mgrVars, out_pc, stat_pc, cm_crash_files, w_file,
                   w_new, op, timeout, remaining, result, histVars>>
    /\ UNCHANGED unitVars

\* AFLCrashMonitor.stop_monitoring (528-542): remove_watch (174-194) takes
\* _event_lock, which the polling thread holds for a whole cycle;
\* FileSystemMonitor.stop_monitoring (248-266) sets the stop event and joins
\* the polling thread, which is between two cycles and ends (276)
MonStop(c) ==
    /\ pc[c] = "idle"
    /\ op' = [op EXCEPT ![c] = "stop_monitoring"]
    /\ IF ~cm_monitoring
       THEN UNCHANGED <<cm_monitoring, fm_handlers, fm_last_states,
                        fm_monitoring, fm_stop_event, w_pc>>
       ELSE /\ w_pc \in {"idle", "dead"}
            /\ fm_handlers' = FALSE
            /\ fm_last_states' = {}
            /\ fm_monitoring' = FALSE
            /\ fm_stop_event' = (fm_monitoring \/ fm_stop_event)
            /\ w_pc' = "dead"
            /\ cm_monitoring' = FALSE
    /\ Return(c, "True")
    /\ UNCHANGED <<envVars, mgrVars, out_pc, stat_pc, cm_crash_files, w_file,
                   w_new, timeout, remaining, result, histVars>>
    /\ UNCHANGED unitVars

\* a file appears in the crashes directory
FileAppears(f) ==
    /\ f \notin crashes_dir
    /\ crashes_dir' = crashes_dir \cup {f}
    /\ UNCHANGED <<children, signals, mgrVars, out_pc, stat_pc, cmVars,
                   callVars, histVars>>
    /\ UNCHANGED unitVars

\* a file of the crashes directory is removed
FileVanishes(f) ==
    /\ f \in crashes_dir
    /\ crashes_dir' = crashes_dir \ {f}
    /\ UNCHANGED <<children, signals, mgrVars, out_pc, stat_pc, cmVars,
                   callVars, histVars>>
    /\ UNCHANGED unitVars

MonStartMonitoring(c) == MonStartCheck(c) \/ MonScan(c) \/ MonWatch(c)

MonNext ==
    \/ MonStartMonitoring(Controller)
    \/ MonStop(Controller)
    \/ PollingLoop
    \/ \E f \in CrashDirNames : FileAppears(f) \/ FileVanishes(f)

MonSpec == Init /\ [][MonNext]_vars

(***************************************************************************)
(* A fourth specification: one FileSystemMonitor (file_monitor.py 48-461,  *)
(* polling strategy) on which the crash monitor's handler is registered    *)
(* once and whose start_monitoring and stop_monitoring are then called,    *)
(* one call after the other, in any order.  When start_monitoring creates  *)
(* a thread while the previous one is still alive, the two threads are not *)
(* told apart afterwards.                                                  *)
(***************************************************************************)
\* FileSystemMonitor.add_watch (83-132): under _event_lock, register the
\* handler and take the first snapshot (314-331)
FmAddWatch(c) ==
    /\ pc[c] = "idle"
    /\ ~fm_handlers
    /\ w_pc \in {"none", "idle", "dead"}
    /\ op' = [op EXCEPT ![c] = "add_watch"]
    /\ fm_handlers' = TRUE
    /\ fm_last_states' = crashes_dir
    /\ Return(c, "True")
    /\ UNCHANGED <<envVars, mgrVars, out_pc, stat_pc, cm_crash_files,
                   cm_monitoring, fm_monitoring, fm_stop_event, w_pc, w_file,
                   w_new, timeout, remaining, result, histVars>>
    /\ UNCHANGED unitVars

\* FileSystemMonitor.start_monitoring (220-246): refuse when _monitoring is
\* set; else set it, clear the stop event and start a new polling thread
\* (Thread.start() may raise, which resets _monitoring)
FmStartMonitoring(c) ==
    /\ pc[c] = "idle"
    /\ op' = [op EXCEPT ![c] = "fm_start_monitoring"]
    /\ IF fm_monitoring
       THEN /\ Return(c, "False")
            /\ UNCHANGED <<fm_monitoring, fm_stop_event, w_pc>>
       ELSE /\ fm_stop_event' = FALSE
            /\ \/ /\ fm_monitoring' = TRUE
                  /\ w_pc' = IF w_pc \in {"none", "dead"} THEN "idle" ELSE w_pc
                  /\ Return(c, "True")
               \/ /\ Return(c, "False")
                  /\ UNCHANGED <<fm_monitoring, w_pc>>
    /\ UNCHANGED <<envVars, mgrVars, out_pc, stat_pc, cm_crash_files,
                   cm_monitoring, fm_handlers, fm_last_states, w_file, w_new,
                   timeout, remaining, result, histVars>>
    /\ UNCHANGED unitVars

\* FileSystemMonitor.stop_monitoring (248-270): nothing to do when
\* _monitoring is clear; else clear it, set the stop event and
\* join(timeout=5): a thread waiting between two cycles wakes up and ends,
\* while the join gives up on a thread that is held for longer than the 5
\* seconds inside the user's on_crash_found callback
FmStopMonitoring(c) ==
    /\ pc[c] = "idle"
    /\ op' = [op EXCEPT ![c] = "fm_stop_monitoring"]
    /\ IF ~fm_monitoring
       THEN UNCHANGED <<fm_monitoring, fm_stop_event, w_pc>>
       ELSE /\ w_pc \notin {"cb_flag", "cb_set"}
            /\ fm_monitoring' = FALSE
            /\ fm_stop_event' = TRUE
            /\ w_pc' = IF w_pc = "idle" THEN "dead" ELSE w_pc
    /\ Return(c, "True")
    /\ UNCHANGED <<envVars, mgrVars, out_pc, stat_pc, cm_crash_files,
                   cm_monitoring, fm_handlers, fm_last_states, w_file, w_new,
                   timeout, remaining, result, histVars>>
    /\ UNCHANGED unitVars

\* _polling_loop, line 276: the thread finds the stop event set and ends
PollingExit ==
    /\ w_pc = "idle"
    /\ fm_stop_event
    /\ w_pc' = "dead"
    /\ UNCHANGED <<envVars, mgrVars, out_pc, stat_pc, cm_crash_files,
                   cm_monitoring, fm_monitoring, fm_handlers, fm_last_states,
                   fm_stop_event, w_file, w_new, callVars, histVars>>
    /\ UNCHANGED unitVars

FmNext ==
    \/ FmAddWatch(Controller)
    \/ FmStartMonitoring(Controller)
    \/ FmStopMonitoring(Controller)
    \/ PollingLoop
    \/ PollingExit
    \/ \E f \in CrashDirNames : FileAppears(f) \/ FileVanishes(f)

FmSpec == Init /\ [][FmNext]_vars

(***************************************************************************)
(* The FileSystemMonitor on its own (file_monitor.py): one client calls    *)
(* add_watch and start_monitoring, the environment writes and removes      *)
(* files, and the monitoring thread polls or reads inotify events.  The    *)
(* thread's cycle is one step: _polling_loop holds _event_lock for it.     *)
(***************************************************************************)
\* the dict current_state that _update_polling_state and
\* _check_polling_changes collect: the regular files of the directories
Listing(dirs) ==
    [f \in FsFiles |-> IF f[1] \in dirs THEN tree[f] ELSE NoFile]

\* first loop of _check_polling_changes: the files of current_state that
\* old_state lacks (CREATED) or holds with another mtime (MODIFIED)
Changed(key, old, cur) ==
    { [key |-> key,
       type |-> IF old[f] = NoFile THEN "created" ELSE "modified",
       path |-> f] :
        f \in {g \in FsFiles : cur[g] # NoFile /\ old[g] # cur[g]} }

\* second loop: the files of old_state that current_state lacks (DELETED)
Vanished(key, old, cur) ==
    { [key |-> key, type |-> "deleted", path |-> f] :
        f \in {g \in FsFiles : old[g] # NoFile /\ cur[g] = NoFile} }

\* the events of one _check_polling_changes, in the order it emits them
CheckPollingChanges(key, old, cur) ==
    ListOf(Changed(key, old, cur)) \o ListOf(Vanished(key, old, cur))

\* a variant of the handler loop that ends at the first handler that raises
StopsOnRaise(h) == h # "h_raise"

\* _emit_event's loop goes on to the next handler whatever handler h did:
\* the call sits in its own try/except
ContinuesAfter(h) == TRUE

RECURSIVE EmitFrom(_, _, _)
EmitFrom(hs, ev, i) ==
    IF i > Len(hs)
    THEN <<>>
    ELSE <<[handler |-> hs[i], event |-> ev]>>
         \o (IF ContinuesAfter(hs[i]) THEN EmitFrom(hs, ev, i + 1) ELSE <<>>)

\* _emit_event: the handler calls it makes for one event
EmitEvent(ev) == EmitFrom(event_handlers[ev.key], ev, 1)

RECURSIVE EmitAll(_)
EmitAll(evs) ==
    IF evs = <<>> THEN <<>> ELSE EmitEvent(Head(evs)) \o EmitAll(Tail(evs))

\* the directories add_watch registers for the directory it is given
WatchedBy(recursive) == IF recursive THEN Dirs ELSE {"root"}

\* add_watch of a path that does not exist (lines 102-104)
FsAddWatchMissing ==
    /\ add_watch_ret' = "False"
    /\ UNCHANGED <<fs_monitoring, fs_inotify, use_polling,
                   event_handlers, watch_descriptors,
                   polling_paths, last_states, monitor_thread, tree,
                   inotify_queue, emitted, delivered, cycle_listing>>

\* add_watch in polling mode (lines 111-132)
FsAddWatchPolling(handler, recursive) ==
    /\ use_polling
    /\ event_handlers' =
           [event_handlers EXCEPT ![WatchKey] = Append(@, handler)]
    /\ polling_paths' =
           [polling_paths EXCEPT ![WatchKey] = @ \cup WatchedBy(recursive)]
    /\ last_states' =
           [last_states EXCEPT
               ![WatchKey] =
                   [f \in FsFiles |->
                       IF f[1] \in polling_paths'[WatchKey]
                       THEN tree[f] ELSE NoFile]]
    /\ cycle_listing' =
           IF cycle_listing = NoListing
           THEN NoListing
           ELSE [f \in FsFiles |->
                    IF f[1] \in WatchedBy(recursive) \ polling_paths[WatchKey]
                    THEN tree[f] ELSE cycle_listing[f]]
    /\ add_watch_ret' = "True"
    /\ UNCHANGED <<fs_monitoring, fs_inotify, use_polling,
                   watch_descriptors, monitor_thread, tree,
                   inotify_queue, emitted, delivered>>

\* add_watch in inotify mode (lines 111-113, 134-163); failing names the
\* directory whose _inotify.add_watch raises OSError, "none" when none does
FsAddWatchInotify(handler, recursive, failing) ==
    /\ ~use_polling
    /\ failing \in WatchedBy(recursive) \cup {"none"}
    /\ event_handlers' =
           [event_handlers EXCEPT ![WatchKey] = Append(@, handler)]
    /\ watch_descriptors' =
           [k \in Keys |->
               CASE k = WatchKey /\ failing # "root" -> "root"
                 [] k = SubKey /\ recursive /\ failing = "none" -> "sub"
                 [] OTHER -> watch_descriptors[k]]
    /\ fs_inotify' =
           <<(IF fs_inotify = <<>> THEN {} ELSE fs_inotify[1])
             \cup {d \in WatchedBy(recursive) :
                      /\ failing # d
                      /\ d = "sub" => failing = "none"}>>
    /\ add_watch_ret' = IF failing = "none" THEN "True" ELSE "False"
    /\ UNCHANGED <<fs_monitoring, use_polling, polling_paths, last_states,
                   monitor_thread, tree, inotify_queue, emitted, delivered,
                   cycle_listing>>

\* FileSystemMonitor.add_watch(path, event_handler, watch_key='k', recursive)
FsAddWatch(path, handler, recursive) ==
    /\ Len(event_handlers[WatchKey]) < MaxHandlers
    /\ \/ /\ path = "missing"
          /\ FsAddWatchMissing
       \/ /\ path # "missing"
          /\ \/ FsAddWatchPolling(handler, recursive)
             \/ \E failing \in Dirs \cup {"none"} :
                    FsAddWatchInotify(handler, recursive, failing)
    /\ UNCHANGED <<managerVars, parserVars, progressVars, otherVars>>

\* self._inotify holds an instance: add_watch creates one (lines 136-137),
\* stop_monitoring closes and drops it (lines 260-262)
InotifyReady == ~use_polling /\ fs_inotify # <<>>

\* FileSystemMonitor.start_monitoring (220-246) returning True; the thread
\* it starts runs _polling_loop or _inotify_loop, and _inotify_loop
\* returns at once when there is no self._inotify (lines 292-294)
FsStartMonitoring ==
    /\ ~fs_monitoring
    /\ fs_monitoring' = TRUE
    /\ monitor_thread' =
           IF use_polling \/ InotifyReady THEN "alive" ELSE "dead"
    /\ UNCHANGED <<fs_inotify, use_polling, event_handlers,
                   watch_descriptors, polling_paths, last_states, tree,
                   inotify_queue, emitted, delivered, cycle_listing,
                   add_watch_ret>>
    /\ UNCHANGED <<managerVars, parserVars, progressVars, otherVars>>

\* FileSystemMonitor.stop_monitoring (248-270) of a running monitor: the
\* thread, which is between two passes, finds the stop event and ends and
\* is joined; the INotify instance is closed, with the events it held, and
\* self._inotify = None.  The registries are left as they are.
FsStopMonitoring ==
    /\ fs_monitoring
    /\ fs_monitoring' = FALSE
    /\ monitor_thread' = "dead"
    /\ fs_inotify' = <<>>
    /\ inotify_queue' = <<>>
    /\ UNCHANGED <<use_polling, event_handlers, watch_descriptors,
                   polling_paths, last_states, tree, emitted, delivered,
                   cycle_listing, add_watch_ret>>
    /\ UNCHANGED <<managerVars, parserVars, progressVars, otherVars>>

\* one pass of _polling_loop (lines 276-283): _check_polling_changes for
\* every key of _polling_paths
FsPollingLoop ==
    /\ monitor_thread = "alive"
    /\ use_polling
    /\ polling_paths[WatchKey] # {}
    /\ LET cur == Listing(polling_paths[WatchKey])
           evs == CheckPollingChanges(WatchKey, last_states[WatchKey], cur)
       IN  /\ emitted' = evs
           /\ delivered' = EmitAll(evs)
           /\ last_states' = [last_states EXCEPT ![WatchKey] = cur]
           /\ cycle_listing' = cur
    /\ UNCHANGED <<fs_monitoring, fs_inotify, use_polling,
                   event_handlers, watch_descriptors,
                   polling_paths, monitor_thread, tree, inotify_queue,
                   add_watch_ret>>
    /\ UNCHANGED <<managerVars, parserVars, progressVars, otherVars>>

\* the watch key _handle_inotify_event finds for a watch descriptor: the
\* first of _watch_descriptors, which holds the given key before the keys
\* of its subdirectories (lines 426-429)
KeyOfWd(wd) ==
    IF watch_descriptors[WatchKey] = wd THEN WatchKey
    ELSE IF watch_descriptors[SubKey] = wd THEN SubKey
    ELSE "none"

\* one event of _inotify_loop (lines 301-304) through
\* _handle_inotify_event
FsInotifyLoop ==
    /\ monitor_thread = "alive"
    /\ ~use_polling
    /\ inotify_queue # <<>>
    /\ LET ev == Head(inotify_queue)
           key == KeyOfWd(ev.wd)
           evs == IF key = "none"
                  THEN <<>>
                  ELSE <<[key |-> key, type |-> ev.type, path |-> ev.path]>>
       IN  /\ emitted' = evs
           /\ delivered' = EmitAll(evs)
    /\ inotify_queue' = Tail(inotify_queue)
    /\ UNCHANGED <<fs_monitoring, fs_inotify, use_polling,
                   event_handlers, watch_descriptors,
                   polling_paths, last_states, monitor_thread, tree,
                   cycle_listing, add_watch_ret>>
    /\ UNCHANGED <<managerVars, parserVars, progressVars, otherVars>>

\* the kernel queues an event for a directory that has a watch
Notify(f, type) ==
    IF InotifyReady /\ f[1] \in fs_inotify[1]
    THEN /\ Len(inotify_queue) < MaxQueue
         /\ inotify_queue' =
                Append(inotify_queue, [wd |-> f[1], type |-> type, path |-> f])
    ELSE UNCHANGED inotify_queue

\* the environment creates file f, or writes to it
FsWrite(f) ==
    /\ tree[f] < MaxMtime
    /\ tree' = [tree EXCEPT ![f] = @ + 1]
    /\ Notify(f, IF tree[f] = NoFile THEN "created" ELSE "modified")
    /\ UNCHANGED <<fs_monitoring, fs_inotify, use_polling,
                   event_handlers, watch_descriptors,
                   polling_paths, last_states, monitor_thread, emitted,
                   delivered, cycle_listing, add_watch_ret>>
    /\ UNCHANGED <<managerVars, parserVars, progressVars, otherVars>>

\* the environment removes file f
FsRemove(f) ==
    /\ tree[f] # NoFile
    /\ tree' = [tree EXCEPT ![f] = NoFile]
    /\ Notify(f, "deleted")
    /\ UNCHANGED <<fs_monitoring, fs_inotify, use_polling,
                   event_handlers, watch_descriptors,
                   polling_paths, last_states, monitor_thread, emitted,
                   delivered, cycle_listing, add_watch_ret>>
    /\ UNCHANGED <<managerVars, parserVars, progressVars, otherVars>>

\* FileSystemMonitor(use_polling=...) over a directory that may hold files
FsInit ==
    /\ ManagerInit
    /\ use_polling \in BOOLEAN
    /\ FsConstructed
    /\ tree \in [FsFiles -> {NoFile, 1}]
    /\ ParserIdle
    /\ ProgressIdle
    /\ OtherIdle

FsNext ==
    \/ \E path \in WatchPaths, handler \in Handlers, recursive \in BOOLEAN :
           FsAddWatch(path, handler, recursive)
    \/ FsStartMonitoring
    \/ FsStopMonitoring
    \/ FsPollingLoop
    \/ FsInotifyLoop
    \/ \E f \in FsFiles : FsWrite(f)
    \/ \E f \in FsFiles : FsRemove(f)

FsSpec == FsInit /\ [][FsNext]_vars

(***************************************************************************)
(* AFLProcessManager.get_progress_message on its own (afl_manager.py       *)
(* 615-649): the clock advances, the output reader changes self.state, the *)
(* stats poller raises stats.total_execs, and a client asks for messages.  *)
(* The other stats fields keep the values of AFLStats().                   *)
(***************************************************************************)
\* the part of the message chosen by the if/elif chain on self.state
\* (lines 620-642); the RUNNING text carries stats.exec_speed and
\* stats.paths_found, which stay 0 here, and no crash count
ProgressText(st) ==
    CASE st = "starting" -> <<"initializing environment">>
      [] st = "running" -> <<"running - exec speed", 0, "paths", 0>>
      [] st = "exploring" -> <<"exploring new paths">>
      [] st = "final_phase" -> <<"final phase">>
      [] st = "finished" -> <<"finished">>
      [] OTHER -> <<"state", st>>

\* the string get_progress_message returns: the text and the suffix
\* f'[T:{timestamp}|E:{exec_count}]' (lines 645-649)
ProgressMessage ==
    [text |-> ProgressText(state),
     T |-> now % Wrap,
     E |-> total_execs % Wrap]

\* AFLProcessManager.get_progress_message()
GetProgressMessage ==
    /\ Len(messages) < MaxCalls
    /\ messages' = Append(messages, ProgressMessage)
    /\ UNCHANGED <<now, total_execs>>
    /\ UNCHANGED <<managerVars, fsVars, parserVars, otherVars>>

\* time.time() moves on by a second
ClockTick ==
    /\ now < MaxClock
    /\ now' = now + 1
    /\ UNCHANGED <<total_execs, messages>>
    /\ UNCHANGED <<managerVars, fsVars, parserVars, otherVars>>

\* _monitor_stats stores a fuzzer_stats file with one more execution
StatsUpdate ==
    /\ total_execs < MaxExecs
    /\ total_execs' = total_execs + 1
    /\ UNCHANGED <<now, messages>>
    /\ UNCHANGED <<managerVars, fsVars, parserVars, otherVars>>

\* _monitor_output hands a line to _detect_state_changes
StateUpdate(line) ==
    /\ state' = DetectState(line, state)
    /\ UNCHANGED <<envVars, process, stop_monitoring, crash_monitor,
                   crash_files_count, crash_event, first_crash_detected,
                   out_pc, stat_pc, cmVars, callVars, histVars>>
    /\ UNCHANGED unitVars

ProgressNext ==
    \/ GetProgressMessage
    \/ ClockTick
    \/ StatsUpdate
    \/ \E line \in Lines : StateUpdate(line)

ProgressSpec == Init /\ [][ProgressNext]_vars

(***************************************************************************)
(* AFLOutputParser on its own (afl_manager.py 56-142).  A line is a label, *)
(* a colon and a field (followed by "/sec" after an execution speed); a    *)
(* fuzzer_stats file is absent, unreadable, or holds one "key : value"     *)
(* line.  A field is a sequence of characters.                             *)
(***************************************************************************)
\* the characters of a field: a digit, the dot, and any other character
FieldChars == {"1", ".", "x"}

Fields == UNION { [1..n -> FieldChars] : n \in 0..MaxField }

\* the labels of a line of output: one whose value parse_line converts with
\* float, one it converts with int, and one that no pattern matches
LineLabels == {"exec speed", "total execs", "unknown"}

\* what parse_fuzzer_stats may find at stats_file
StatsFiles ==
    {[call |-> "parse_fuzzer_stats", label |-> l, field |-> <<>>] :
        l \in {"absent", "unreadable"}}
    \cup {[call |-> "parse_fuzzer_stats", label |-> l, field |-> v] :
            l \in {"execs_per_sec", "total_execs"}, v \in Fields}

ParserInputs ==
    {[call |-> "parse_line", label |-> l, field |-> v] :
        l \in LineLabels, v \in Fields}
    \cup StatsFiles

\* [\d.]+ followed by \s*/sec matches the field: it is not empty and made
\* of digits and dots only (line 60)
MatchesFloatPattern(v) ==
    v # <<>> /\ \A p \in 1..Len(v) : v[p] \in {"1", "."}

RECURSIVE DigitPrefix(_)
\* the group (\d+) captures the digits the field starts with (line 61)
DigitPrefix(v) ==
    IF v # <<>> /\ Head(v) = "1"
    THEN <<"1">> \o DigitPrefix(Tail(v))
    ELSE <<>>

\* float(v) returns: digits with at most one dot, and at least one digit
FloatAccepts(v) ==
    /\ \A p \in 1..Len(v) : v[p] \in {"1", "."}
    /\ Cardinality({p \in 1..Len(v) : v[p] = "."}) <= 1
    /\ \E p \in 1..Len(v) : v[p] = "1"

\* int(v) returns: digits only, at least one
IntAccepts(v) == v # <<>> /\ \A p \in 1..Len(v) : v[p] = "1"

\* the call returns the dict (or the AFLStats fields) results
Returned(results) == [status |-> "returned", results |-> results]

\* an exception leaves the call
Raised == [status |-> "raised", results |-> {}]

\* AFLOutputParser.parse_line: the dict results as a set of <<key, value>>;
\* the conversion raises ValueError with no try around it
ParseLineResult(inp) ==
    CASE inp.label = "exec speed" ->
            IF ~MatchesFloatPattern(inp.field) THEN Returned({})
            ELSE IF FloatAccepts(inp.field)
                 THEN Returned({ <<"exec_speed", inp.field>> })
                 ELSE Raised
      [] inp.label = "total execs" ->
            IF DigitPrefix(inp.field) = <<>> THEN Returned({})
            ELSE Returned({ <<"total_execs", DigitPrefix(inp.field)>> })
      [] OTHER -> Returned({})

\* AFLOutputParser.parse_fuzzer_stats: the fields of the AFLStats it
\* returns that differ from the defaults; every exception is caught
ParseFuzzerStatsResult(inp) ==
    CASE inp.label = "execs_per_sec" /\ FloatAccepts(inp.field) ->
            Returned({ <<"exec_speed", inp.field>> })
      [] inp.label = "total_execs" /\ IntAccepts(inp.field) ->
            Returned({ <<"total_execs", inp.field>> })
      [] OTHER -> Returned({})

\* parser.parse_line(line)
ParseLine ==
    /\ parser_input.call = "parse_line"
    /\ parser_output = NoOutput
    /\ parser_output' = ParseLineResult(parser_input)
    /\ UNCHANGED parser_input
    /\ UNCHANGED <<managerVars, fsVars, progressVars, otherVars>>

\* parser.parse_fuzzer_stats(stats_file)
ParseFuzzerStats ==
    /\ parser_input.call = "parse_fuzzer_stats"
    /\ parser_output = NoOutput
    /\ parser_output' = ParseFuzzerStatsResult(parser_input)
    /\ UNCHANGED parser_input
    /\ UNCHANGED <<managerVars, fsVars, progressVars, otherVars>>

\* a parser and the input of its next call
ParseInit ==
    /\ ManagerInit
    /\ use_polling = TRUE
    /\ FsConstructed
    /\ tree = NoFiles
    /\ parser_input \in ParserInputs
    /\ parser_output = NoOutput
    /\ ProgressIdle
    /\ OtherIdle

ParseNext == ParseLine \/ ParseFuzzerStats

ParseSpec == ParseInit /\ [][ParseNext]_vars

(***************************************************************************)
(* The writers of self.state, statement by statement: the output reader in *)
(* _detect_state_changes and _notify_state_change (afl_manager.py 401-423) *)
(* and a thread at the end of stop_fuzzing (471-472).  No lock guards      *)
(* self.state; every read and every assignment of it is a step.            *)
(***************************************************************************)
\* the manager's variables other than self.state
managerButState ==
    <<envVars, process, stop_monitoring, crash_monitor, crash_files_count,
      crash_event, first_crash_detected, out_pc, stat_pc, cmVars, callVars,
      histVars>>

\* the state history after self.state = new
Assigning(new) == IF new # state THEN Append(assigned, new) ELSE assigned

\* line 403: old_state = self.state
ReaderReadOld ==
    /\ reader.pc = "read"
    /\ Len(assigned) < MaxChanges
    /\ reader' = [pc |-> "assign", old |-> state, new |-> "none"]
    /\ UNCHANGED <<state, assigned, notified, stopper>>
    /\ UNCHANGED <<managerButState, fsVars, parserVars, progressVars,
                   detectVars, statsVars, lockVars>>

\* lines 405-414: the if/elif chain assigns the state the line selects
ReaderAssign(line) ==
    /\ reader.pc = "assign"
    /\ state' = DetectState(line, state)
    /\ assigned' = Assigning(state')
    /\ reader' = [reader EXCEPT !.pc = "compare", !.new = state']
    /\ UNCHANGED <<notified, stopper>>
    /\ UNCHANGED <<managerButState, fsVars, parserVars, progressVars,
                   detectVars, statsVars, lockVars>>

\* line 416: if old_state != self.state
ReaderCompare ==
    /\ reader.pc = "compare"
    /\ reader' = IF NotifiesOn(reader.old, state)
                 THEN [reader EXCEPT !.pc = "notify"]
                 ELSE ReaderIdle
    /\ UNCHANGED <<state, assigned, notified, stopper>>
    /\ UNCHANGED <<managerButState, fsVars, parserVars, progressVars,
                   detectVars, statsVars, lockVars>>

\* line 423: self.on_state_change(self.state, self.stats); trigger is the
\* state the caller's own assignment made
Notification(trigger) == [reported |-> state, trigger |-> trigger]

\* lines 417-423: _notify_state_change() of the output reader
ReaderNotify ==
    /\ reader.pc = "notify"
    /\ notified' = Append(notified, Notification(reader.new))
    /\ reader' = ReaderIdle
    /\ UNCHANGED <<state, assigned, stopper>>
    /\ UNCHANGED <<managerButState, fsVars, parserVars, progressVars,
                   detectVars, statsVars, lockVars>>

\* line 471: self.state = AFLFuzzingState.TERMINATED
StopperAssign ==
    /\ stopper = "idle"
    /\ state' = "terminated"
    /\ assigned' = Assigning("terminated")
    /\ stopper' = "notify"
    /\ UNCHANGED <<notified, reader>>
    /\ UNCHANGED <<managerButState, fsVars, parserVars, progressVars,
                   detectVars, statsVars, lockVars>>

\* line 472: _notify_state_change() of stop_fuzzing
StopperNotify ==
    /\ stopper = "notify"
    /\ notified' = Append(notified, Notification("terminated"))
    /\ stopper' = "done"
    /\ UNCHANGED <<state, assigned, reader>>
    /\ UNCHANGED <<managerButState, fsVars, parserVars, progressVars,
                   detectVars, statsVars, lockVars>>

NotifyNext ==
    \/ ReaderReadOld
    \/ \E line \in Lines : ReaderAssign(line)
    \/ ReaderCompare
    \/ ReaderNotify
    \/ StopperAssign
    \/ StopperNotify

NotifySpec == Init /\ [][NotifyNext]_vars

(***************************************************************************)
(* _detect_state_changes as a function of the text of a line               *)
(* (afl_manager.py 401-414).  A line is the keywords that occur in it,     *)
(* each with its spelling: "lower" as the source writes the keyword,       *)
(* "upper" with a capital letter somewhere.                                *)
(***************************************************************************)
Keywords ==
    {"started :-)", "starting", "in progress", "final phase", "finished",
     "exploring"}

Spellings == {"lower", "upper"}

\* the lines with at most MaxWords keywords
CasedLines ==
    UNION { [ws -> Spellings] :
              ws \in { s \in SUBSET Keywords : Cardinality(s) <= MaxWords } }

\* keyword in line
In(keyword, line) == keyword \in DOMAIN line /\ line[keyword] = "lower"

\* keyword in line.lower()
InLower(keyword, line) == keyword \in DOMAIN line

\* lines 405-414: the if/elif chain
DetectStateCased(line, st) ==
    IF In("started :-)", line) \/ InLower("starting", line) THEN "starting"
    ELSE IF In("in progress", line) THEN "running"
    ELSE IF In("final phase", line) THEN "final_phase"
    ELSE IF In("finished", line) THEN "finished"
    ELSE IF InLower("exploring", line) THEN "exploring"
    ELSE st

\* two lines that differ in letter case only, and the state before them
DetectInputs ==
    { <<a, b, st>> : a \in CasedLines,
                     b \in CasedLines,
                     st \in AFLFuzzingState }

SameLetters(a, b) == DOMAIN a = DOMAIN b

\* _detect_state_changes on either line, from the same state
DetectStateChanges ==
    /\ det_input # NoLines
    /\ det_output = <<>>
    /\ det_output' = <<DetectStateCased(det_input[1], det_input[3]),
                       DetectStateCased(det_input[2], det_input[3])>>
    /\ UNCHANGED det_input
    /\ UNCHANGED <<managerVars, fsVars, parserVars, progressVars,
                   notifyVars, statsVars, lockVars>>

DetectInit ==
    /\ ManagerInit
    /\ use_polling = TRUE
    /\ FsConstructed
    /\ tree = NoFiles
    /\ ParserIdle
    /\ ProgressIdle
    /\ assigned = <<>>
    /\ notified = <<>>
    /\ reader = ReaderIdle
    /\ stopper = "idle"
    /\ det_input \in { i \in DetectInputs : SameLetters(i[1], i[2]) }
    /\ det_output = <<>>
    /\ stats = DefaultStats
    /\ last_update = NoUpdate
    /\ event_lock = "none"
    /\ poller = PollerIdle
    /\ client = ClientIdle

DetectNext == DetectStateChanges

DetectSpec == DetectInit /\ [][DetectNext]_vars

(***************************************************************************)
(* The two writers of self.stats: _update_stats_from_output (395-399) for  *)
(* a parsed line of output, and one pass of _monitor_stats (367-384) for   *)
(* the fuzzer_stats file.                                                  *)
(***************************************************************************)
StatValues == 0..MaxStat

\* parse_line's keys that are fields of AFLStats (59-72, 36-51)
StreamFields == {"exec_speed", "run_time"}

\* the fields parse_fuzzer_stats assigns (112-137)
FileFields == {"exec_speed", "bitmap_cvg"}

\* the fields and values one source supplies at a time
Supplies(fields) == UNION { [fs -> StatValues] : fs \in SUBSET fields }

NoFields == [f \in {} |-> 0]

\* parse_fuzzer_stats, lines 100-140: AFLStats() with the file's keys
ParsedStats(file) ==
    [f \in StatsFields |-> IF f \in DOMAIN file THEN file[f]
                           ELSE DefaultStats[f]]

\* lines 397-399: setattr for every key of parsed
WithAttrs(old, parsed) ==
    [f \in StatsFields |-> IF f \in DOMAIN parsed THEN parsed[f] ELSE old[f]]

\* _monitor_output, lines 348-350: a non-empty parsed dict updates the stats
UpdateStatsFromOutput(parsed) ==
    /\ parsed # NoFields
    /\ stats' = WithAttrs(stats, parsed)
    /\ last_update' = [by |-> "stream", supplied |-> parsed]
    /\ UNCHANGED <<managerVars, fsVars, parserVars, progressVars,
                   notifyVars, detectVars, lockVars>>

\* _monitor_stats, lines 369-380: self.stats = new_stats
MonitorStatsPass(file) ==
    /\ stats' = ParsedStats(file)
    /\ last_update' = [by |-> "file", supplied |-> file]
    /\ UNCHANGED <<managerVars, fsVars, parserVars, progressVars,
                   notifyVars, detectVars, lockVars>>

StatsNext ==
    \/ \E parsed \in Supplies(StreamFields) : UpdateStatsFromOutput(parsed)
    \/ \E file \in Supplies(FileFields) : MonitorStatsPass(file)

StatsSpec == Init /\ [][StatsNext]_vars

(***************************************************************************)
(* The users of FileSystemMonitor._event_lock, a threading.Lock (line 76): *)
(* the polling thread, which holds it for a whole cycle with the handler   *)
(* calls inside (278-280), and a client thread in add_watch (109) or       *)
(* remove_watch (184).  A handler may itself call add_watch or             *)
(* remove_watch on the monitor.                                            *)
(***************************************************************************)
LockHandlers == {"h_ok", "h_add_watch", "h_remove_watch"}

LockThreads == {"poller", "client"}

\* the handlers that enter `with self._event_lock` on the calling thread
Reenters(h) == h \in {"h_add_watch", "h_remove_watch"}

\* t has reached a `with self._event_lock`
AtLock(t) ==
    IF t = "poller"
    THEN \/ poller.pc = "wait" /\ monitor_thread = "alive" /\ use_polling
         \/ poller.pc = "acquire"
    ELSE client.pc = "acquire"

\* Lock.acquire(): only a free lock is taken, whoever asks
Acquire(t) ==
    /\ AtLock(t)
    /\ event_lock = "none"
    /\ event_lock' = t
    /\ IF t = "poller"
       THEN /\ poller' = [poller EXCEPT
                             !.pc = IF @ = "wait" THEN "check" ELSE "reentered"]
            /\ UNCHANGED client
       ELSE /\ client' = [client EXCEPT !.pc = "locked"]
            /\ UNCHANGED poller
    /\ UNCHANGED <<managerVars, fsVars, parserVars, progressVars,
                   notifyVars, detectVars, statsVars>>

\* _check_polling_changes, lines 338-352: old_state and current_state
PollCheck ==
    /\ poller.pc = "check"
    /\ LET cur == Listing(polling_paths[WatchKey])
       IN  /\ emitted' = IF polling_paths[WatchKey] = {} THEN <<>>
                         ELSE CheckPollingChanges(WatchKey,
                                                  last_states[WatchKey], cur)
           /\ cycle_listing' = cur
    /\ delivered' = <<>>
    /\ poller' = [pc |-> "calls", i |-> 0]
    /\ UNCHANGED <<fs_monitoring, fs_inotify, use_polling, event_handlers,
                   watch_descriptors, polling_paths, last_states,
                   monitor_thread, tree, inotify_queue, add_watch_ret>>
    /\ UNCHANGED <<event_lock, client>>
    /\ UNCHANGED <<managerVars, parserVars, progressVars, notifyVars,
                   detectVars, statsVars>>

\* the next handler call of the cycle (_emit_event, lines 439-443), made
\* with the lock held; a handler that calls add_watch or remove_watch
\* comes to `with self._event_lock` on the polling thread
PollCall ==
    /\ poller.pc = "calls"
    /\ poller.i < Len(EmitAll(emitted))
    /\ LET call == EmitAll(emitted)[poller.i + 1]
       IN  /\ delivered' = Append(delivered, call)
           /\ poller' = IF Reenters(call.handler)
                        THEN [poller EXCEPT !.pc = "acquire"]
                        ELSE [poller EXCEPT !.i = @ + 1]
    /\ UNCHANGED <<fs_monitoring, fs_inotify, use_polling, event_handlers,
                   watch_descriptors, polling_paths, last_states,
                   monitor_thread, tree, inotify_queue, emitted,
                   cycle_listing, add_watch_ret>>
    /\ UNCHANGED <<event_lock, client>>
    /\ UNCHANGED <<managerVars, parserVars, progressVars, notifyVars,
                   detectVars, statsVars>>

\* the end of the cycle: self._last_states[watch_key] = current_state, and
\* the with block of line 278 is left
PollRelease ==
    /\ poller.pc = "calls"
    /\ poller.i = Len(EmitAll(emitted))
    /\ last_states' =
           IF polling_paths[WatchKey] = {} THEN last_states
           ELSE [last_states EXCEPT ![WatchKey] = cycle_listing]
    /\ event_lock' = "none"
    /\ poller' = PollerIdle
    /\ UNCHANGED <<fs_monitoring, fs_inotify, use_polling, event_handlers,
                   watch_descriptors, polling_paths, monitor_thread, tree,
                   inotify_queue, emitted, delivered, cycle_listing,
                   add_watch_ret>>
    /\ UNCHANGED client
    /\ UNCHANGED <<managerVars, parserVars, progressVars, notifyVars,
                   detectVars, statsVars>>

\* another thread calls add_watch(root, handler, "k") or remove_watch("k")
ClientCall(call, handler) ==
    /\ client.pc = "idle"
    /\ call = "add_watch" => Len(event_handlers[WatchKey]) < MaxHandlers
    /\ call = "remove_watch" => handler = "none"
    /\ client' = [pc |-> "acquire", call |-> call, handler |-> handler]
    /\ UNCHANGED <<event_lock, poller>>
    /\ UNCHANGED <<managerVars, fsVars, parserVars, progressVars,
                   notifyVars, detectVars, statsVars>>

\* the body of the client's with block: add_watch in polling mode (111-132)
\* or remove_watch (186-193); the block is left
ClientRun ==
    /\ client.pc = "locked"
    /\ use_polling
    /\ IF client.call = "add_watch"
       THEN /\ event_handlers' =
                   [event_handlers EXCEPT
                       ![WatchKey] = Append(@, client.handler)]
            /\ polling_paths' =
                   [polling_paths EXCEPT ![WatchKey] = @ \cup {"root"}]
            /\ last_states' =
                   [last_states EXCEPT
                       ![WatchKey] = Listing(polling_paths'[WatchKey])]
       ELSE /\ event_handlers' = [event_handlers EXCEPT ![WatchKey] = <<>>]
            /\ polling_paths' = [polling_paths EXCEPT ![WatchKey] = {}]
            /\ last_states' = [last_states EXCEPT ![WatchKey] = NoFiles]
    /\ add_watch_ret' = "True"
    /\ event_lock' = "none"
    /\ client' = ClientIdle
    /\ UNCHANGED <<fs_monitoring, fs_inotify, use_polling,
                   watch_descriptors, monitor_thread, tree, inotify_queue,
                   emitted, delivered, cycle_listing>>
    /\ UNCHANGED poller
    /\ UNCHANGED <<managerVars, parserVars, progressVars, notifyVars,
                   detectVars, statsVars>>

LockNext ==
    \/ FsStartMonitoring
    \/ \E t \in LockThreads : Acquire(t)
    \/ PollCheck
    \/ PollCall
    \/ PollRelease
    \/ \E h \in LockHandlers : ClientCall("add_watch", h)
    \/ ClientCall("remove_watch", "none")
    \/ ClientRun
    \/ \E f \in FsFiles : FsWrite(f)

LockSpec == Init /\ [][LockNext]_vars

(***************************************************************************)
(* Properties                                                              *)
(***************************************************************************)
NotRunningResult ==
    [crashed |-> FALSE, crash_count |-> 0, wait_time |-> "0.0",
     reason |-> "not_running", error |-> TRUE]

\* the step is a call of operation name by caller c (the call and its first
\* check are one step; a call that changes nothing of c is a stuttering step)
Calls(c, name) ==
    /\ pc[c] = "idle"
    /\ op'[c] = name
    /\ <<pc[c], op[c], ret[c], result[c]>>
           # <<pc'[c], op'[c], ret'[c], result'[c]>>

\* the step is the return of operation name to caller c, after its first step
Returns(c, name) == op[c] = name /\ pc[c] # "idle" /\ pc'[c] = "idle"

\* C1: an artifact created in the watched crashes directory while a caller
\* is blocked in wait_for_crash on a live child releases the caller: once
\* the watcher has processed the artifact, the latch is set (the caller is
\* not left blocked with the latch clear).
C1_ArtifactReleasesWaiter ==
    \A c \in Callers : pc[c] = "wait_block" /\ reported[c] => crash_event

\* C2: once a stop_fuzzing called while a caller was blocked in
\* wait_for_crash has returned, the caller is not left blocked with nothing
\* that can release it: the latch is set, or the caller's timeout runs, or
\* a watcher that can set the latch is still running.
C2_StopReleasesWaiter ==
    \A c, d \in Callers :
        (/\ pc[c] = "wait_block" /\ stopped[c]
         /\ pc[d] = "idle" /\ op[d] = "stop_fuzzing" /\ ret[d] = "True")
        => \/ crash_event
           \/ timeout[c] # NoTimeout
           \/ w_pc \notin {"none", "dead"}

\* C3: start_fuzzing called while the child is alive returns False, spawns
\* nothing and starts no thread; at most one child is alive at any time.
C3_StartWhileAliveRejected ==
    [][ /\ \A c \in Callers :
              Calls(c, "start_fuzzing") /\ ChildAlive
              => /\ pc'[c] = "idle"
                 /\ ret'[c] = "False"
                 /\ UNCHANGED <<children, process, state, out_pc, stat_pc,
                                w_pc, crash_monitor>>
        /\ Cardinality({s \in Sessions : children'[s] = "alive"}) <= 1 ]_vars

\* C3 witness: a start_fuzzing has returned False while the child of the
\* running session is alive and its monitors run.
C3_Witness ==
    \E c \in Callers :
        /\ pc[c] = "idle" /\ op[c] = "start_fuzzing" /\ ret[c] = "False"
        /\ ChildAlive
        /\ state = "running"
        /\ out_pc = "run" /\ stat_pc = "run" /\ w_pc = "idle"

\* C4: wait_for_crash called with no child alive returns at once with
\* crashed = false, crash_count = 0, wait_time = 0.0, reason not_running and
\* an error field, and neither clears nor arms the latch.
C4_WaitNotRunningImmediate ==
    [][ \A c \in Callers :
            Calls(c, "wait_for_crash") /\ ~ChildAlive
            => /\ pc'[c] = "idle"
               /\ ret'[c] = "dict"
               /\ result'[c] = NotRunningResult
               /\ UNCHANGED <<crash_event, first_crash_detected>> ]_vars

\* C4 witness: wait_for_crash has returned not_running for a child that
\* has exited on its own and that the call's poll() has collected, while
\* the latch is set.
C4_Witness ==
    \E c \in Callers :
        /\ pc[c] = "idle" /\ op[c] = "wait_for_crash" /\ ret[c] = "dict"
        /\ result[c] = NotRunningResult
        /\ process # None
        /\ children[process] = "reaped"
        /\ signals = <<>> /\ out_pc = "run" /\ state = "running"
        /\ crash_event /\ first_crash_detected

\* C5: a wait_for_crash that was given a timeout and returns with the latch
\* never set reports reason 'timeout', whatever the timeout value.
C5_TimeoutReason ==
    [][ \A c \in Callers :
            (/\ Returns(c, "wait_for_crash")
             /\ pc[c] = "wait_block"
             /\ ~crash_event
             /\ timeout[c] # NoTimeout)
            => result'[c].reason = "timeout" ]_vars

\* C6: a graceful stop_fuzzing whose child outlives the grace window sends
\* SIGTERM and then SIGKILL, returns True, and both monitor threads have
\* ended when it returns.
C6_GracefulEscalation ==
    [][ \A c \in Callers :
            Returns(c, "stop_fuzzing") /\ grace_expired[c]
            => /\ ret'[c] = "True"
               /\ signals' = <<"SIGTERM", "SIGKILL">>
               /\ out_pc' \in {"none", "dead"}
               /\ stat_pc' \in {"none", "dead"} ]_vars

\* C7: every stop_fuzzing on a manager whose child was started ends with
\* state = TERMINATED.
C7_StopEndsTerminated ==
    [][ \A c \in Callers :
            Returns(c, "stop_fuzzing") => state' = "terminated" ]_vars

\* C8: TERMINATED, ERROR and FINISHED are absorbing for the output reader:
\* a step that is not a step of a caller (the reader handling a line) does
\* not change such a state.
C8_FinalStatesAbsorbing ==
    [][ (state \in {"terminated", "error", "finished"} /\ pc' = pc)
            => state' = state ]_vars

\* C9: when the spawn fails, start_fuzzing returns False with state ERROR
\* and no monitor thread or watcher started.
C9_SpawnFailure ==
    [][ \A c \in Callers :
            (/\ Returns(c, "start_fuzzing")
             /\ pc[c] = "start_err"
             /\ sess[c] = None)
            => /\ ret'[c] = "False"
               /\ state' = "error"
               /\ UNCHANGED <<out_pc, stat_pc, w_pc, crash_monitor>> ]_vars

\* C10: start_fuzzing, stop_fuzzing and wait_for_crash never raise: no
\* call ends with an exception, whatever the callbacks do.
C10_NeverRaises == \A c \in Callers : ret[c] # "raised"

\* C11: when a successful start_fuzzing returns (the watcher of the new
\* session starts in that very step, so it has detected nothing yet), the
\* crash latch is clear: the event is unset and the first-crash flag is
\* false, also when an earlier session left them set.
C11_StartClearsLatch ==
    [][ \A c \in Callers :
            Returns(c, "start_fuzzing") /\ ret'[c] = "True"
            => ~crash_event' /\ ~first_crash_detected' ]_vars

\* the caller is inside a stop_fuzzing that has already sent its signal
HasSignalled(c) ==
    /\ op[c] = "stop_fuzzing"
    /\ pc[c] \in {"stop_wait", "stop_kill", "stop_term", "stop_join"}

\* no child process is running for a stop_fuzzing of caller d: none was ever
\* started, the child has been stopped and collected, or another caller's
\* stop_fuzzing is already tearing the session down
NothingToStop(d) ==
    \/ process = None
    \/ children[process] = "reaped"
    \/ \E c \in Callers \ {d} : HasSignalled(c)

\* C12: a stop_fuzzing that runs while no child process is running (never
\* started, already stopped, or a second stop concurrent with one that has
\* signalled) returns False, sends no signal and leaves the state unchanged:
\* its call, and its steps up to the point where it would signal, change
\* neither the signals sent nor the state, and it returns False.
C12_IdleStopIsNoOp ==
    [][ \A d \in Callers :
            (/\ NothingToStop(d)
             /\ \/ Calls(d, "stop_fuzzing")
                \/ /\ op[d] = "stop_fuzzing"
                   /\ pc[d] \in {"stop_cm", "stop_sig"}
                   /\ pc'[d] # pc[d])
            => /\ signals' = signals
               /\ state' = state
               /\ pc'[d] = "idle" => ret'[d] = "False" ]_vars

\* the crash watcher has work at hand that may still set the latch: it is
\* inside the manager's callback, or its next cycle will find a change
WatcherPending ==
    \/ w_pc \in {"cb_flag", "cb_set", "cb_user"}
    \/ /\ w_pc = "idle"
       /\ ~fm_stop_event
       /\ fm_handlers
       /\ crashes_dir # fm_last_states

\* C13: a wait_for_crash without a timeout ends once the child has exited
\* without a crash: no caller is left blocked, after the exit of the child
\* of a fully started session, with the latch clear, no timeout running, no
\* detection under way and no other call in progress.
C13_WaitEndsOnChildExit ==
    \A c \in Callers :
        (/\ pc[c] = "wait_block"
         /\ timeout[c] = NoTimeout
         /\ ~ChildAlive
         /\ Watched
         /\ \A d \in Callers \ {c} : pc[d] = "idle")
        => crash_event \/ WatcherPending

\* C14: the crash_count of a wait_for_crash result is at least the number
\* of artifacts the manager's crash watcher had recorded when the call began;
\* stated for a call that returns in its first step, where the beginning and
\* the end of the call see the same watcher.
C14_CountCoversRecorded ==
    [][ \A c \in Callers :
            (/\ Calls(c, "wait_for_crash")
             /\ pc'[c] = "idle"
             /\ crash_monitor # None)
            => result'[c].crash_count >= Cardinality(cm_crash_files) ]_vars

\* C15: in every state of an AFLCrashMonitor, get_crash_files() holds no
\* name that contains 'README', only names that start with 'id:', and each
\* path at most once.
C15_CrashFilesFiltered ==
    LET l == GetCrashFiles IN
    \A i \in DOMAIN l :
        /\ StartsWithId(l[i])
        /\ ~ContainsReadme(l[i])
        /\ \A j \in DOMAIN l : l[j] = l[i] => j = i

\* C15 witness: the monitor runs, every name is in the directory and has
\* been seen by the polling thread, the callback has run for the second
\* artifact, and the set is the two artifacts.
C15_Witness ==
    /\ cm_monitoring /\ w_pc = "idle"
    /\ crashes_dir = CrashDirNames
    /\ fm_last_states = CrashDirNames
    /\ crash_files_count = Cardinality(cm_crash_files)
    /\ Len(GetCrashFiles) = Cardinality(ScanCrashFiles(CrashDirNames))
    /\ cm_crash_files = ScanCrashFiles(CrashDirNames)

\* C16: for the lifetime of one AFLCrashMonitor the artifact set only
\* grows: no step (an event, stop_monitoring, a later start_monitoring with
\* its rescan) removes a path from it.
C16_CrashFilesOnlyGrow == [][ cm_crash_files \subseteq cm_crash_files' ]_vars

\* the step is the polling thread delivering a Created event that passes
\* the handler's filter: the handler calls on_crash_found (line 561-563)
OnCrashFoundCalled ==
    /\ w_pc = "idle"
    /\ pc' = pc
    /\ \E f \in fm_last_states' \ fm_last_states : IsCrashFileEvent(f)

\* C17: AFLCrashMonitor calls on_crash_found only when its set has grown
\* (not for a Created event whose path the set already holds), and passes
\* the full current set.
C17_CallbackOnlyOnGrowth ==
    [][ OnCrashFoundCalled
            => /\ cm_crash_files' # cm_crash_files
               /\ cm_crash_files \subseteq cm_crash_files'
               /\ w_pc' = "cb_flag" => w_new' = Cardinality(cm_crash_files')
      ]_vars

\* C18: no artifact is missed around the start of monitoring: when the
\* monitor is active, start_monitoring has returned and the polling thread
\* has nothing left to report (its snapshot is the directory), every
\* artifact of the directory is in the monitor's set.
C18_NoArtifactMissed ==
    (/\ cm_monitoring
     /\ \A c \in Callers : pc[c] = "idle"
     /\ w_pc = "idle"
     /\ fm_last_states = crashes_dir)
    => ScanCrashFiles(crashes_dir) \subseteq cm_crash_files

\* C19: the fallback scan of get_crashes accepts a file name exactly when
\* the watcher's event filter and its initial scan accept it; checked on
\* every file of the directory.
C19_FallbackAgreesWithWatcher ==
    \A f \in crashes_dir :
        /\ f \in FallbackScan({f}) <=> IsCrashFileEvent(f)
        /\ f \in FallbackScan({f}) <=> f \in ScanCrashFiles({f})

\* C20: for any sequence of start_monitoring and stop_monitoring calls on
\* one FileSystemMonitor at most one monitoring thread is alive (a thread is
\* created only when the previous one has ended); start_monitoring while
\* running returns False and creates no thread; stop_monitoring when not
\* running returns True and changes nothing.
C20_OneMonitorThread ==
    [][ /\ (~fm_monitoring /\ fm_monitoring') => w_pc \in {"none", "dead"}
        /\ \A c \in Callers :
              /\ Calls(c, "fm_start_monitoring") /\ fm_monitoring
                 => ret'[c] = "False" /\ UNCHANGED cmVars
              /\ Calls(c, "fm_stop_monitoring") /\ ~fm_monitoring
                 => ret'[c] = "True" /\ UNCHANGED cmVars ]_vars

\* the children of the manager that are alive
AliveChildren == {s \in Sessions : children[s] = "alive"}

\* C26: the liveness check and the spawn of start_fuzzing are atomic with
\* respect to other callers: when two threads call start_fuzzing
\* concurrently, at most one child is spawned, so that never two children
\* of the manager are alive together.
C26_StartIsAtomic == Cardinality(AliveChildren) <= 1

\* the step is the manager's callback finding that the artifact set has
\* grown and deciding at line 323 whether to set the latch
GrowthReported == w_pc = "cb_flag" /\ w_pc' # "cb_flag"

\* C27: no lost wakeup: artifact-set growth that the watcher reports after
\* a wait_for_crash has begun to arm (it has cleared the event, and has or
\* has not yet reset the first-crash flag) satisfies the call: the event is
\* set already or the callback goes on to set it.
C27_NoLostWakeup ==
    [][ \A c \in Callers :
            pc[c] \in {"wait_rearm", "wait_block"} /\ GrowthReported
            => crash_event \/ w_pc' = "cb_set" ]_vars

\* the step is _start_monitoring creating and starting the output reader
\* and the stats poller of a session
MonitorsStarted ==
    \E c \in Callers : pc[c] = "start_mon" /\ pc'[c] = "start_cm_scan"

\* C28: a manager has at most one live output reader and one live stats
\* poller at any time: when start_fuzzing starts the monitor threads of a
\* session, the threads of the earlier session have ended.
C28_OneThreadOfEachKind ==
    [][ MonitorsStarted
            => /\ out_pc \in {"none", "dead"}
               /\ stat_pc \in {"none", "dead"} ]_vars

AddWatchFails ==
    /\ \E path \in WatchPaths, handler \in Handlers, recursive \in BOOLEAN :
           FsAddWatch(path, handler, recursive)
    /\ add_watch_ret' = "False"

\* C21: whenever add_watch returns False, because the path does not exist
\* or because the backend registration fails, the handler registry, the
\* watch descriptors, the polling paths and the snapshots are exactly as
\* they were before the call.
C21_FailedAddWatchChangesNothing ==
    [][ AddWatchFails
            => UNCHANGED <<event_handlers, watch_descriptors, polling_paths,
                           last_states>> ]_vars

\* a pass of the monitoring thread
MonitorPass == FsPollingLoop \/ FsInotifyLoop

\* the handler calls owed for the events of a pass: every handler of the
\* event's key, in registration order, event after event
OwedCalls(evs) ==
    LET n == IF evs = <<>> THEN 0 ELSE Len(event_handlers[evs[1].key])
    IN  [p \in 1..(Len(evs) * n) |->
            [handler |-> event_handlers[evs[((p - 1) \div n) + 1].key]
                                       [((p - 1) % n) + 1],
             event |-> evs[((p - 1) \div n) + 1]]]

\* C22: for every event the monitoring thread emits, each handler
\* registered under the event's key is invoked exactly once, in
\* registration order, also when an earlier handler raises; and a raising
\* handler does not end the monitoring thread.
C22_EveryHandlerInvoked ==
    [][ MonitorPass
            => /\ delivered' = OwedCalls(emitted')
               /\ monitor_thread' = "alive" ]_vars

\* C22 (witness): a pass delivered an event to a handler that raised and
\* then to the handler registered after it, and the thread is alive.
C22_Witness ==
    /\ monitor_thread = "alive"
    /\ \E p \in 1..(Len(delivered) - 1) :
           /\ delivered[p].handler = "h_raise"
           /\ delivered[p + 1].handler = "h_ok"
           /\ delivered[p + 1].event = delivered[p].event

\* the file of the subdirectory
SubFile == <<"sub", "a">>

\* a pass of the monitoring thread meets the creation of the file of the
\* subdirectory, which a recursive add_watch registered: the polling pass
\* finds it in the listing and not in the snapshot, the inotify pass reads
\* the kernel's event for it
SubFileCreationSeen ==
    \/ /\ use_polling
       /\ FsPollingLoop
       /\ "sub" \in polling_paths[WatchKey]
       /\ last_states[WatchKey][SubFile] = NoFile
       /\ tree[SubFile] # NoFile
    \/ /\ ~use_polling
       /\ FsInotifyLoop
       /\ watch_descriptors[SubKey] = "sub"
       /\ Head(inotify_queue).type = "created"
       /\ Head(inotify_queue).path = SubFile

\* C23: with recursive=True a file created in a subdirectory that existed
\* when add_watch was called yields a Created event delivered to the
\* handlers registered under the watch key, under inotify just as under
\* polling.
C23_SubdirectoryEventsDelivered ==
    [][ SubFileCreationSeen
            => \A j \in 1..Len(event_handlers[WatchKey]) :
                   \E p \in 1..Len(delivered') :
                       /\ delivered'[p].handler = event_handlers[WatchKey][j]
                       /\ delivered'[p].event.type = "created"
                       /\ delivered'[p].event.path = SubFile ]_vars

\* the number of events of the sequence evs that are of the given type
\* and about file f
EventCount(evs, type, f) ==
    Cardinality({p \in 1..Len(evs) : evs[p].type = type /\ evs[p].path = f})

C24_MessagesDiffer ==
    \A i, j \in 1..Len(messages) : i # j => messages[i] # messages[j]

\* C25: the statistics parser never fails its caller: parse_line returns a
\* map for every line, also for a line whose labelled numeric field is
\* malformed, and parse_fuzzer_stats returns statistics when the file is
\* absent or unreadable; neither raises.
C25_ParserNeverRaises == parser_output.status # "raised"

\* C34: if start_fuzzing returns False, no child process spawned by that
\* call is left alive (a failure after the spawn, such as a monitor
\* thread that cannot be started or a raising state-change callback, does
\* not leave a running child behind).
C34_FailedStartLeavesNoChild ==
    [][ \A c \in Callers :
            Returns(c, "start_fuzzing") /\ ret'[c] = "False"
            => IF sess[c] = None THEN TRUE
               ELSE children'[sess[c]] # "alive" ]_vars

\* the crash watcher records an artifact it did not know
ArtifactDetected == WatchCreated /\ cm_crash_files' # cm_crash_files

\* C35: in every session of a manager, also one after a stop or a natural
\* exit, a new crash artifact the session's watcher detects passes the
\* comparison with _crash_files_count and goes on to the crash latch and
\* on_crash_found: the count an earlier session reached never suppresses
\* it.
C35_BaselineNeverSuppresses ==
    [][ ArtifactDetected => w_pc' = "cb_flag" ]_vars

C37_CallbackErrorKeepsMonitors ==
    [][ /\ (out_pc = "run" /\ out_pc' = "dead")
              => (stop_monitoring \/ ~ChildAlive)
        /\ (stat_pc = "run" /\ stat_pc' = "dead") => stop_monitoring ]_vars

\* C40: in _on_crash_files_changed the crash latch is set strictly before
\* on_crash_found is invoked (a report that finds the first-crash flag
\* false reaches the callback only through the step that sets the latch),
\* and _crash_files_count is advanced only when the callback has returned,
\* to the reported count.
C40_LatchBeforeCallback ==
    [][ /\ (w_pc # "cb_user" /\ w_pc' = "cb_user")
              => \/ w_pc = "cb_set" /\ crash_event'
                 \/ w_pc = "cb_flag" /\ first_crash_detected
        /\ (crash_files_count' # crash_files_count)
              => /\ w_pc = "cb_user"
                 /\ w_pc' = "idle"
                 /\ crash_files_count' = w_new ]_vars

\* C40 (witness): a blocked wait_for_crash has returned crashed=true while
\* on_crash_found has not returned yet and the count is not advanced.
C40_Witness ==
    /\ w_pc = "cb_user"
    /\ pc[Waiter] = "idle"
    /\ op[Waiter] = "wait_for_crash"
    /\ result[Waiter].crashed
    /\ crash_files_count < w_new

\* start_monitoring returns True on a monitor that was stopped and still
\* has the watch of the directory registered, with its handlers
RestartedWithWatch ==
    /\ FsStartMonitoring
    /\ monitor_thread = "dead"
    /\ event_handlers[WatchKey] # <<>>
    /\ IF use_polling
       THEN "root" \in polling_paths[WatchKey]
       ELSE watch_descriptors[WatchKey] = "root"

\* C38: after stop_monitoring followed by start_monitoring on the same
\* FileSystemMonitor, events are delivered again for every watch still
\* registered, under both strategies: when start_monitoring returns True,
\* a monitoring thread is alive (and with inotify the registered directory
\* is watched by the INotify instance the thread reads).
C38_RestartResumesDelivery ==
    [][ RestartedWithWatch
            => /\ monitor_thread' = "alive"
               /\ use_polling \/ (InotifyReady /\ "root" \in fs_inotify[1])
       ]_vars

\* C31: the sequence of states delivered to on_state_change equals the
\* sequence of state changes in the order they were made: every callback
\* invocation reports the state assigned by the transition that triggered
\* it, also when stop_fuzzing runs concurrently with the output reader,
\* and no transition is skipped, reported twice or out of its turn.
C31_CallbacksFollowTransitions ==
    /\ Len(notified) <= Len(assigned)
    /\ \A i \in 1..Len(notified) :
          /\ notified[i].reported = notified[i].trigger
          /\ i <= Len(assigned) => notified[i].reported = assigned[i]

\* C32: state detection is case-insensitive for every keyword: two lines
\* that differ only in letter case produce the same state.
C32_CaseInsensitiveDetection ==
    (det_output # <<>> /\ SameLetters(det_input[1], det_input[2]))
        => det_output[1] = det_output[2]

\* C33: statistics are last-writer-wins per field: an update from one source
\* changes only the fields that source supplies, so a field set from the
\* output stream and absent from the stats file keeps its value across a
\* stats-file poll, and a stream update leaves all other fields unchanged.
C33_UpdateTouchesSuppliedFieldsOnly ==
    [][ last_update'.by # "none"
            => \A f \in StatsFields \ DOMAIN last_update'.supplied :
                   stats'[f] = stats[f] ]_vars

\* C39: the polling loop is deadlock-free with respect to the watch
\* registry lock: a handler that calls add_watch or remove_watch on the
\* same monitor while the loop holds the lock still returns, so the polling
\* thread never waits for a lock that it holds itself.
C39_HandlerNeverBlocksOnOwnLock ==
    ~(poller.pc = "acquire" /\ event_lock = "poller")

=============================================================================
